---- MODULE Spec2Model ----
(***************************************************************************)
(* Model of the session / navigation core of the remote-control bot:      *)
(*   bot.py           path token codec, button_handler, handle_message,   *)
(*                    cancel_command, auth_command, start_timer           *)
(*   keyboards.py     the controls rendered for a file                    *)
(*   security.py      the allow-list and the per-user working directory   *)
(*   file_manager.py  listing and parent computation                      *)
(*                                                                         *)
(* Strings are sequences of Unicode code points, byte strings sequences   *)
(* of 0..255, so that base64 and UTF-8 are computed, not assumed.         *)
(***************************************************************************)
EXTENDS Integers, Sequences, FiniteSets, TLC

(***************************************************************************)
(* Path token codec (bot.py 38-49, keyboards.py 10-13)                     *)
(***************************************************************************)

\* the slice bound of encode_path: encoded[:60]
TokenBudget == 60

\* '=' , the base64 pad character
PadChar == 61

\* str.encode('utf-8') of one code point
utf8_char(cp) ==
    IF cp < 128 THEN <<cp>>
    ELSE IF cp < 2048 THEN <<192 + (cp \div 64), 128 + (cp % 64)>>
    ELSE IF cp < 65536
         THEN <<224 + (cp \div 4096), 128 + ((cp \div 64) % 64), 128 + (cp % 64)>>
         ELSE <<240 + (cp \div 262144), 128 + ((cp \div 4096) % 64),
                128 + ((cp \div 64) % 64), 128 + (cp % 64)>>

RECURSIVE utf8_encode(_)
\* str.encode('utf-8'): the concatenation of the encodings of the code points
utf8_encode(s) ==
    IF s = <<>> THEN <<>> ELSE utf8_char(Head(s)) \o utf8_encode(Tail(s))

\* number of bytes announced by a UTF-8 lead byte, 0 for an invalid lead
utf8_width(b) ==
    IF b < 128 THEN 1
    ELSE IF b >= 194 /\ b <= 223 THEN 2
    ELSE IF b >= 224 /\ b <= 239 THEN 3
    ELSE IF b >= 240 /\ b <= 244 THEN 4
    ELSE 0

IsCont(b) == b >= 128 /\ b <= 191

\* the code point carried by the n bytes of b that start at i
utf8_value(b, i, n) ==
    IF n = 1 THEN b[i]
    ELSE IF n = 2 THEN (b[i] - 192) * 64 + (b[i + 1] - 128)
    ELSE IF n = 3 THEN (b[i] - 224) * 4096 + (b[i + 1] - 128) * 64 + (b[i + 2] - 128)
    ELSE (b[i] - 240) * 262144 + (b[i + 1] - 128) * 4096
         + (b[i + 2] - 128) * 64 + (b[i + 3] - 128)

\* strict UTF-8: continuation bytes, no overlong form, no surrogate, <= 10FFFF
utf8_wellformed(b, i, n) ==
    /\ n > 0
    /\ i + n - 1 <= Len(b)
    /\ \A k \in 1..(n - 1) : IsCont(b[i + k])
    /\ LET cp == utf8_value(b, i, n)
       IN  /\ (n = 3 => cp >= 2048 /\ ~(cp >= 55296 /\ cp <= 57343))
           /\ (n = 4 => cp >= 65536 /\ cp <= 1114111)

RECURSIVE utf8_decode_from(_, _, _)
utf8_decode_from(b, i, acc) ==
    IF i > Len(b) THEN [ok |-> TRUE, val |-> acc, err |-> "none"]
    ELSE LET n == utf8_width(b[i])
         IN  IF utf8_wellformed(b, i, n)
             THEN utf8_decode_from(b, i + n, Append(acc, utf8_value(b, i, n)))
             ELSE [ok |-> FALSE, val |-> <<>>, err |-> "UnicodeDecodeError"]

\* bytes.decode('utf-8'): the code points, or UnicodeDecodeError
utf8_decode(b) == utf8_decode_from(b, 1, <<>>)

\* the base64 alphabet: sextet -> character
b64_char(v) ==
    IF v < 26 THEN 65 + v
    ELSE IF v < 52 THEN 97 + (v - 26)
    ELSE IF v < 62 THEN 48 + (v - 52)
    ELSE IF v = 62 THEN 43
    ELSE 47

\* the base64 alphabet: character -> sextet, 64 for a character outside it
b64_val(c) ==
    IF c >= 65 /\ c <= 90 THEN c - 65
    ELSE IF c >= 97 /\ c <= 122 THEN c - 97 + 26
    ELSE IF c >= 48 /\ c <= 57 THEN c - 48 + 52
    ELSE IF c = 43 THEN 62
    ELSE IF c = 47 THEN 63
    ELSE 64

\* the byte of b at i, 0 past the end (the zero bits of a short last group)
ByteAt(b, i) == IF i <= Len(b) THEN b[i] ELSE 0

\* base64.b64encode: 4 characters per group of 3 bytes, '=' padded
b64encode(b) ==
    LET groups == (Len(b) + 2) \div 3
    IN  [k \in 1..(4 * groups) |->
            LET g  == (k - 1) \div 4
                j  == (k - 1) % 4
                b1 == ByteAt(b, 3 * g + 1)
                b2 == ByteAt(b, 3 * g + 2)
                b3 == ByteAt(b, 3 * g + 3)
            IN  IF j = 0 THEN b64_char(b1 \div 4)
                ELSE IF j = 1 THEN b64_char((b1 % 4) * 16 + (b2 \div 16))
                ELSE IF j = 2
                     THEN (IF 3 * g + 2 > Len(b) THEN PadChar
                           ELSE b64_char((b2 % 16) * 4 + (b3 \div 64)))
                     ELSE (IF 3 * g + 3 > Len(b) THEN PadChar
                           ELSE b64_char(b3 % 64))]

\* one round of the loop of binascii.a2b_base64 (non-strict) on character c:
\* a character outside the alphabet is skipped, a completed pad sequence ends
\* the input, a data character contributes six bits
b64_step(st, c) ==
    IF st.done THEN st
    ELSE IF c = PadChar
    THEN (IF st.quad >= 2 /\ st.quad + st.pads + 1 >= 4
          THEN [st EXCEPT !.done = TRUE, !.quad = 0]
          ELSE IF st.quad >= 2 THEN [st EXCEPT !.pads = @ + 1] ELSE st)
    ELSE LET v == b64_val(c)
         IN  IF v >= 64 THEN st
             ELSE IF st.quad = 0
             THEN [st EXCEPT !.quad = 1, !.left = v, !.pads = 0]
             ELSE IF st.quad = 1
             THEN [st EXCEPT !.quad = 2, !.left = v % 16, !.pads = 0,
                             !.out = Append(@, st.left * 4 + (v \div 16))]
             ELSE IF st.quad = 2
             THEN [st EXCEPT !.quad = 3, !.left = v % 4, !.pads = 0,
                             !.out = Append(@, st.left * 16 + (v \div 4))]
             ELSE [st EXCEPT !.quad = 0, !.left = 0, !.pads = 0,
                             !.out = Append(@, st.left * 64 + v)]

RECURSIVE b64_scan(_, _, _, _)
\* the loop over the characters lo..hi of s, from state st
b64_scan(s, lo, hi, st) ==
    IF lo > hi THEN st
    ELSE IF lo = hi THEN b64_step(st, s[lo])
    ELSE LET mid  == (lo + hi) \div 2
             half == b64_scan(s, lo, mid, st)
         IN  IF half.done THEN half ELSE b64_scan(s, mid + 1, hi, half)

\* base64.b64decode(s): the bytes, or binascii.Error for a dangling group
b64decode(s) ==
    LET st == b64_scan(s, 1, Len(s),
                       [quad |-> 0, left |-> 0, pads |-> 0, out |-> <<>>, done |-> FALSE])
    IN  IF st.quad = 0 THEN [ok |-> TRUE, val |-> st.out, err |-> "none"]
        ELSE [ok |-> FALSE, val |-> <<>>, err |-> "binascii.Error"]

\* s[:n]
Slice(s, n) == IF Len(s) <= n THEN s ELSE SubSeq(s, 1, n)

\* encode_path with the slice taken one base64 group short: encoded[:56]
encode_path_short(path) == Slice(b64encode(utf8_encode(path)), TokenBudget - 4)

\* bot.encode_path: base64 of the UTF-8 bytes, cut to TokenBudget characters
encode_path(path) == Slice(b64encode(utf8_encode(path)), TokenBudget)

\* bot.decode_path: re-pad to a multiple of 4, base64-decode, UTF-8-decode;
\* the result is the path or the exception raised
decode_path(encoded) ==
    LET padding == 4 - (Len(encoded) % 4)
        padded  == IF padding # 4
                   THEN encoded \o [k \in 1..padding |-> PadChar]
                   ELSE encoded
        raw     == b64decode(padded)
    IN  IF raw.ok THEN utf8_decode(raw.val) ELSE raw

(***************************************************************************)
(* Paths (pathlib on the Windows host) and the filesystem                  *)
(***************************************************************************)

\* '\' and ':' and '.'
Sep == 92
Colon == 58
CurDir == <<46>>

\* the empty string: the drive-list sentinel of the navigation engine
EmptyStr == <<>>

\* "X:\" : a drive root
IsDriveRoot(p) == Len(p) = 3 /\ p[2] = Colon /\ p[3] = Sep

\* index of the last separator of p, 0 when it has none
LastSep(p) ==
    LET idx == {i \in 1..Len(p) : p[i] = Sep}
    IN  IF idx = {} THEN 0 ELSE CHOOSE i \in idx : \A j \in idx : j <= i

\* an ASCII letter: the drive letters of pathlib
IsLetter(c) == (c >= 65 /\ c <= 90) \/ (c >= 97 /\ c <= 122)

\* pathlib splitroot: the drive "X:" of a path, or the empty string
path_drive(p) ==
    IF Len(p) >= 2 /\ p[2] = Colon /\ IsLetter(p[1]) THEN SubSeq(p, 1, 2) ELSE EmptyStr

\* pathlib splitroot: the root "\" that follows the drive, or the empty string
path_root(p) ==
    LET root_at(k) == IF Len(p) > k /\ p[k + 1] = Sep THEN <<Sep>> ELSE EmptyStr
    IN  root_at(Len(path_drive(p)))

\* pathlib parse_parts: what follows drive and root, without its empty and
\* "." components and with one separator between the components left
path_tail(p) ==
    LET IsDot(b, i) == /\ b[i] = CurDir[1]
                       /\ (i = 1 \/ b[i - 1] = Sep)
                       /\ (i = Len(b) \/ b[i + 1] = Sep)
        KeepChar(b, i) == b[i] # Sep /\ ~IsDot(b, i)
        KeepSep(b, i)  == /\ b[i] = Sep
                          /\ i < Len(b)
                          /\ KeepChar(b, i + 1)
                          /\ \E j \in 1..(i - 1) : KeepChar(b, j)
        Normal(b) == \A i \in 1..Len(b) :
                        IF b[i] = Sep THEN i > 1 /\ i < Len(b) /\ b[i + 1] # Sep
                        ELSE ~IsDot(b, i)
        Pick(b, K) == [m \in 1..Cardinality(K) |->
                          b[CHOOSE i \in K : Cardinality({j \in K : j <= i}) = m]]
        tail_of(b) == IF Normal(b) THEN b
                      ELSE Pick(b, {i \in 1..Len(b) : KeepChar(b, i) \/ KeepSep(b, i)})
        after(k) == tail_of(SubSeq(p, k + 1, Len(p)))
    IN  after(Len(path_drive(p)) + Len(path_root(p)))

\* str(Path(p)): "." for a path without drive, root and components
path_str(p) ==
    LET shown(s) == IF s = EmptyStr THEN CurDir ELSE s
    IN  shown(path_drive(p) \o path_root(p) \o path_tail(p))

\* pathlib: str(Path(p).parent); an anchor and "." are their own parents
path_parent(p) ==
    LET shown(s) == IF s = EmptyStr THEN CurDir ELSE s
        cut(anchor, tail, k) == IF k = 0 THEN shown(anchor)
                                ELSE anchor \o SubSeq(tail, 1, k - 1)
        parent_of(anchor, tail) == cut(anchor, tail, LastSep(tail))
    IN  parent_of(path_drive(p) \o path_root(p), path_tail(p))

\* pathlib: Path(p).name, the last component
path_name(p) ==
    LET name_of(tail) == SubSeq(tail, LastSep(tail) + 1, Len(tail))
    IN  name_of(path_tail(p))

\* pathlib: an absolute path carries a drive and a root
IsAbsolute(p) == Len(p) >= 3 /\ p[2] = Colon /\ p[3] = Sep

\* pathlib: parent / name (an absolute right operand replaces the left one)
path_join(parent, name) ==
    IF IsAbsolute(name) THEN name
    ELSE IF parent = CurDir THEN name
    ELSE IF parent[Len(parent)] = Sep THEN parent \o name
    ELSE parent \o <<Sep>> \o name

\* q is p or lies below p
IsUnder(q, p) ==
    \/ q = p
    \/ /\ Len(q) > Len(p)
       /\ SubSeq(q, 1, Len(p)) = p
       /\ (p[Len(p)] = Sep \/ q[Len(p) + 1] = Sep)

\* q, which lies under p, seen after p became np
Rebase(q, p, np) == np \o SubSeq(q, Len(p) + 1, Len(q))

\* get_parent_directory without the two comparisons that detect the top
get_parent_directory_unguarded(path) ==
    IF path = EmptyStr THEN EmptyStr ELSE path_parent(path)

\* file_manager.get_parent_directory
get_parent_directory(path) ==
    IF path = EmptyStr THEN EmptyStr
    ELSE LET parent == path_parent(path)
         IN  IF parent = path \/ parent = Slice(path, 3) THEN EmptyStr
             ELSE parent

\* str.lower() on the letters that occur in names: A-Z and the Cyrillic capitals
Lower(c) ==
    IF c >= 65 /\ c <= 90 THEN c + 32
    ELSE IF c >= 1040 /\ c <= 1071 THEN c + 32
    ELSE c

\* str.lower() leaving every letter as it is
LowerStr_same(s) == s

LowerStr(s) == [i \in 1..Len(s) |-> Lower(s[i])]

RECURSIVE StrLess(_, _)
\* Python's < on str: lexicographic by code point
StrLess(a, b) ==
    IF b = <<>> THEN FALSE
    ELSE IF a = <<>> THEN TRUE
    ELSE IF Head(a) # Head(b) THEN Head(a) < Head(b)
    ELSE StrLess(Tail(a), Tail(b))

\* a file with the given content, a directory; stat() on the node succeeds
File(n) == [kind |-> "file", data |-> n, size |-> n, stat |-> "ok"]
Dir == [kind |-> "dir", data |-> 0, size |-> 0, stat |-> "ok"]

\* Path.exists / is_dir / is_file on the filesystem f (path -> node)
Exists(f, p) == p \in DOMAIN f
IsDir(f, p) == p \in DOMAIN f /\ f[p].kind = "dir"
IsFile(f, p) == p \in DOMAIN f /\ f[p].kind = "file"

\* Path.iterdir: the entries directly inside p
Children(f, p) == {q \in DOMAIN f : q # p /\ path_parent(q) = p}

\* the sort key of get_directory_contents: (not is_dir, name.lower())
KeyLess(f, a, b) ==
    IF IsDir(f, a) # IsDir(f, b) THEN IsDir(f, a)
    ELSE StrLess(LowerStr(path_name(a)), LowerStr(path_name(b)))

RECURSIVE SortedBy(_, _)
\* sorted(...): the paths of S in key order
SortedBy(f, S) ==
    IF S = {} THEN <<>>
    ELSE LET m == CHOOSE x \in S : \A y \in S \ {x} : ~KeyLess(f, y, x)
         IN  <<m>> \o SortedBy(f, S \ {m})

\* file_manager.get_drives: the drive roots that exist, by letter
get_drives(f) == SortedBy(f, {p \in DOMAIN f : IsDriveRoot(p)})

\* get_directory_contents without the is_dir() test
get_directory_contents_any(f, path) ==
    IF ~Exists(f, path) THEN [items |-> <<>>, error |-> "Directory does not exist"]
    ELSE [items |-> SortedBy(f, Children(f, path)), error |-> ""]

\* file_manager.get_directory_contents: (items, error). The key of sorted()
\* calls is_dir() on every entry, and Path.is_dir passes on a PermissionError
\* of stat(), which the outer handler answers for the whole listing; is_dir
\* is False for an entry that is gone (a dangling link), and its stat() in
\* the loop raises the OSError that skips it
get_directory_contents(f, path) ==
    IF ~Exists(f, path) THEN [items |-> <<>>, error |-> "Directory does not exist"]
    ELSE IF ~IsDir(f, path) THEN [items |-> <<>>, error |-> "Not a directory"]
    ELSE IF \E c \in Children(f, path) : f[c].stat = "denied"
    THEN [items |-> <<>>, error |-> "Access denied to"]
    ELSE [items |-> SelectSeq(SortedBy(f, Children(f, path)), LAMBDA c : f[c].stat = "ok"),
          error |-> ""]

\* file_manager.navigate_to_path: the drives for the empty path
navigate_to_path(f, path) ==
    IF path = EmptyStr THEN [items |-> get_drives(f), error |-> ""]
    ELSE get_directory_contents(f, path)

\* the filesystem without p and everything below it
RemoveTree(f, p) == [q \in {x \in DOMAIN f : ~IsUnder(x, p)} |-> f[q]]

\* file_manager.delete_file: (ok, filesystem afterwards)
delete_file(f, file_path) ==
    IF ~Exists(f, file_path) THEN [ok |-> FALSE, fs |-> f, msg |-> "Path does not exist"]
    ELSE [ok |-> TRUE, fs |-> RemoveTree(f, file_path), msg |-> "deleted"]

\* the tree at p relocated to np (os.rename of a file or a directory)
MoveTree(f, p, np) ==
    LET moved == {x \in DOMAIN f : IsUnder(x, p)}
        kept  == DOMAIN f \ moved
        dest  == {Rebase(x, p, np) : x \in moved}
    IN  [q \in kept \cup dest |->
            IF q \in dest
            THEN f[CHOOSE x \in moved : Rebase(x, p, np) = q]
            ELSE f[q]]

\* the tree at p duplicated at np (shutil.copy2 / copytree)
CopyTree(f, p, np) ==
    LET src  == {x \in DOMAIN f : IsUnder(x, p)}
        dest == {Rebase(x, p, np) : x \in src}
    IN  [q \in DOMAIN f \cup dest |->
            IF q \in dest
            THEN f[CHOOSE x \in src : Rebase(x, p, np) = q]
            ELSE f[q]]

\* rename_file without the test of new_path.exists(): the rename replaces
\* what is there
rename_file_over(f, file_path, new_name) ==
    LET new_path == path_join(path_parent(file_path), new_name)
    IN  IF ~Exists(f, file_path)
        THEN [ok |-> FALSE, fs |-> f, msg |-> "Path does not exist", ref |-> file_path]
        ELSE [ok |-> TRUE, fs |-> MoveTree(RemoveTree(f, new_path), file_path, new_path),
              msg |-> "Renamed to", ref |-> new_name]

\* file_manager.rename_file: the outcome, the filesystem afterwards, the
\* message and the path or name that the message shows
rename_file(f, file_path, new_name) ==
    LET new_path == path_join(path_parent(file_path), new_name)
    IN  IF ~Exists(f, file_path)
        THEN [ok |-> FALSE, fs |-> f, msg |-> "Path does not exist", ref |-> file_path]
        ELSE IF Exists(f, new_path)
        THEN [ok |-> FALSE, fs |-> f, msg |-> "Destination already exists",
              ref |-> new_path]
        ELSE [ok |-> TRUE, fs |-> MoveTree(f, file_path, new_path),
              msg |-> "Renamed to", ref |-> new_name]

\* shutil.move: into dst when dst is a directory; a file replaces an existing
\* file; a directory cannot replace anything
shutil_move(f, src, dst) ==
    LET real_dst == IF IsDir(f, dst) /\ dst # src
                    THEN path_join(dst, path_name(src)) ELSE dst
    IN  IF real_dst = src THEN [ok |-> TRUE, fs |-> f]
        ELSE IF IsDir(f, dst) /\ Exists(f, real_dst) THEN [ok |-> FALSE, fs |-> f]
        ELSE IF IsUnder(real_dst, src) THEN [ok |-> FALSE, fs |-> f]
        ELSE IF Exists(f, real_dst) /\ IsDir(f, src) THEN [ok |-> FALSE, fs |-> f]
        ELSE [ok |-> TRUE, fs |-> MoveTree(RemoveTree(f, real_dst), src, real_dst)]

\* file_manager.move_file
move_file(f, file_path, destination) ==
    IF ~Exists(f, file_path)
    THEN [ok |-> FALSE, fs |-> f, msg |-> "Source does not exist", ref |-> file_path]
    ELSE IF ~Exists(f, path_parent(destination))
    THEN [ok |-> FALSE, fs |-> f, msg |-> "Destination directory does not exist",
          ref |-> path_parent(destination)]
    ELSE LET r == shutil_move(f, file_path, destination)
         IN  IF r.ok THEN [ok |-> TRUE, fs |-> r.fs, msg |-> "Moved to", ref |-> destination]
             ELSE [ok |-> FALSE, fs |-> r.fs, msg |-> "Error moving", ref |-> file_path]

\* shutil.copy2 (a file, into dst when dst is a directory, replacing an
\* existing file) and shutil.copytree (a directory, dst must not exist)
shutil_copy(f, src, dst) ==
    IF IsFile(f, src)
    THEN LET real_dst == IF IsDir(f, dst) THEN path_join(dst, path_name(src)) ELSE dst
         IN  IF real_dst = src \/ IsDir(f, real_dst) THEN [ok |-> FALSE, fs |-> f]
             ELSE [ok |-> TRUE, fs |-> CopyTree(RemoveTree(f, real_dst), src, real_dst)]
    ELSE IF Exists(f, dst) \/ IsUnder(dst, src) THEN [ok |-> FALSE, fs |-> f]
         ELSE [ok |-> TRUE, fs |-> CopyTree(f, src, dst)]

\* file_manager.copy_file
copy_file(f, file_path, destination) ==
    IF ~Exists(f, file_path)
    THEN [ok |-> FALSE, fs |-> f, msg |-> "Source does not exist", ref |-> file_path]
    ELSE IF ~Exists(f, path_parent(destination))
    THEN [ok |-> FALSE, fs |-> f, msg |-> "Destination directory does not exist",
          ref |-> path_parent(destination)]
    ELSE LET r == shutil_copy(f, file_path, destination)
         IN  IF r.ok THEN [ok |-> TRUE, fs |-> r.fs, msg |-> "Copied to", ref |-> destination]
             ELSE [ok |-> FALSE, fs |-> r.fs, msg |-> "Error copying", ref |-> file_path]

(***************************************************************************)
(* Free text (bot.handle_message)                                          *)
(***************************************************************************)

IsSpace(c) == c \in {32, 9, 10, 13}
IsDigit(c) == c >= 48 /\ c <= 57

RECURSIVE split_from(_, _, _, _)
\* str.split(): the maximal runs of non-whitespace characters
split_from(s, i, word, acc) ==
    IF i > Len(s) THEN (IF word = <<>> THEN acc ELSE Append(acc, word))
    ELSE IF IsSpace(s[i])
    THEN split_from(s, i + 1, <<>>, IF word = <<>> THEN acc ELSE Append(acc, word))
    ELSE split_from(s, i + 1, Append(word, s[i]), acc)

text_split(s) == split_from(s, 1, <<>>, <<>>)

\* int(s) succeeds: surrounding whitespace, an optional sign, decimal digits
\* (the texts of the model carry neither '_' nor non-ASCII digits)
IsIntText(s) ==
    LET parts == text_split(s)
    IN  /\ Len(parts) = 1
        /\ LET w == parts[1]
               d == IF w[1] \in {43, 45} THEN Tail(w) ELSE w
           IN  Len(d) > 0 /\ \A i \in 1..Len(d) : IsDigit(d[i])

\* "yes", "confirm", "да": the replies that confirm a shutdown or restart
ConfirmWords ==
    { <<121, 101, 115>>,
      <<99, 111, 110, 102, 105, 114, 109>>,
      <<1076, 1072>> }

(***************************************************************************)
(* State                                                                   *)
(***************************************************************************)

VARIABLES
    user_states,          \* bot.user_states: user -> dict, present keys only
    allowed_user_ids,     \* config["allowed_user_ids"]
    password,             \* config["password"]
    current_directories,  \* config["current_directories"]: user -> path
    tasks,                \* the asyncio tasks created by start_timer, by handle
    fs,                   \* the host filesystem: path -> node
    controls,             \* the path-addressed controls of each user's menu message
    running,              \* the synchronous call the dispatch thread is inside
    watchers,             \* monitor._active_watchers: the watched directories
    observers,            \* the observer threads that are running, each with the
                          \* directory it watches and the user of its callback
    processes,            \* the number of processes psutil.process_iter yields
    out                   \* the inbound signal last dispatched and its outcome

vars == <<user_states, allowed_user_ids, password, current_directories,
          tasks, fs, controls, running, watchers, observers, processes, out>>

\* the users that send signals
NumUsers == 2
Users == 1..NumUsers

\* the number of timer tasks created in one run
MaxTimers == 2

\* length of the name of the long directory of the modelled drive
DirNameLen == 39

\* security.load_config: "change_me", the password of the default configuration
DefaultPassword == <<99, 104, 97, 110, 103, 101, 95, 109, 101>>

\* the state as one value, on which the handlers are functions
Cur ==
    [us |-> user_states, allowed |-> allowed_user_ids, pw |-> password,
     dirs |-> current_directories, tasks |-> tasks, fs |-> fs,
     ctl |-> controls, run |-> running, watch |-> watchers, obs |-> observers,
     procs |-> processes, out |-> out]

\* dict operations
HasKey(d, k) == k \in DOMAIN d
\* "d[k] = v" as d.setdefault(k, v), which keeps a value that is there
SetKeyOnce(d, k, v) == IF k \in DOMAIN d THEN d ELSE (k :> v) @@ d
SetKey(d, k, v) == (k :> v) @@ d
\* "del d[k]" left out
DelKeyKept(d, k) == d
\* "del d[k]" as d.clear()
DelKeyAll(d, k) == <<>>
DelKey(d, k) == [x \in DOMAIN d \ {k} |-> d[x]]

\* callback data that was not rendered from a path
NoData == [verb |-> "", arg |-> <<>>, path |-> <<>>, rendered |-> FALSE]

\* state.get('action') of the user's entry, "none" without one
get_action(s, u) ==
    IF u \in DOMAIN s.us /\ HasKey(s.us[u], "action") THEN s.us[u].action ELSE "none"

\* the timer handle of the user's entry, 0 without one
get_timer(s, u) ==
    IF u \in DOMAIN s.us /\ HasKey(s.us[u], "timer_task") THEN s.us[u].timer_task ELSE 0

\* no message of a file operation
NoMsg == [text |-> "", ref |-> <<>>]

\* no list rendered: the number of entries listed and, of a directory, their
\* paths in the order of the listing, the lines of the summary that show
\* one entry each, the numbers of its "... and N more" lines, and the
\* controls that select one entry each
NoView == [entries |-> 0, items |-> <<>>, lines |-> 0, more |-> <<>>, buttons |-> 0]

\* the record of a signal as its handler is entered in state s: the signal,
\* the pending action and the timer handle it meets, and no outcome yet
Entered(s, sig, u, data, text) ==
    [sig |-> sig, user |-> u, data |-> data, text |-> text,
     pending |-> get_action(s, u), timer |-> get_timer(s, u),
     reply |-> "none", fault |-> "none", op |-> "none", target |-> <<>>,
     thread |-> "loop", msg |-> NoMsg, view |-> NoView]

\* the dispatch thread is inside no synchronous call
NoCall == [user |-> 0, op |-> "none"]

\* the collaborators that keep their caller for seconds: the speedtest, the
\* 10-second recording and the shell command with its 30-second timeout
LongRunning == {"run_speedtest", "record_audio", "subprocess.run"}

\* the handler of user u calls collaborator op, a plain function, and the
\* thread of the event loop stays in it until it returns
Block(s, u, op) == [s EXCEPT !.out.op = op, !.run = [user |-> u, op |-> op]]

Reply(s, r) == [s EXCEPT !.out.reply = r]
Raise(s, e) == [s EXCEPT !.out.fault = e]
Call(s, op, target) == [s EXCEPT !.out.op = op, !.out.target = target]

\* the watchers that one run may start
MaxWatchers == 2

\* stop_all_watchers with the loop over the watchers and the clear left out
stop_all_watchers_keeps(s) == s
\* stop_all_watchers clearing the list without stopping the observers
stop_all_watchers_unjoined(s) == [s EXCEPT !.watch = <<>>]
\* monitor.stop_all_watchers: DirectoryWatcher.stop stops and joins the
\* observer of every listed watcher and logs its path, then the list is
\* cleared; out.msg keeps the last "Stopped watching directory" line
stop_all_watchers(s) ==
    LET stopped(w) ==
            [s EXCEPT !.watch = <<>>,
                      !.obs = {o \in @ : \A i \in DOMAIN w : w[i].observer # o.handle},
                      !.out.msg = IF w = <<>> THEN NoMsg
                                  ELSE [text |-> "Stopped watching directory",
                                        ref |-> w[Len(w)].path]]
    IN stopped(s.watch)

\* start_directory_watch with DirectoryWatcher.start not testing path.exists()
start_directory_watch_any(s0, u, path) ==
    LET s == [s0 EXCEPT !.out = [Entered(s0, "watch", u, NoData, EmptyStr)
                                 EXCEPT !.op = "start_directory_watch",
                                        !.target = path]]
        started(h) ==
            [s EXCEPT !.obs = @ \cup {[handle |-> h, path |-> path, user |-> u]},
                      !.watch = Append(@, [path |-> path, user |-> u, observer |-> h]),
                      !.out.reply = "started"]
    IN started(CHOOSE h \in 1..(Cardinality(s.obs) + 1) :
                            \A o \in s.obs : o.handle # h)
\* monitor.start_directory_watch with the callback of user u:
\* DirectoryWatcher.start returns False for a path that does not exist,
\* before any Observer is created; otherwise it starts an observer thread,
\* and the watcher that holds it is appended to the list
start_directory_watch(s0, u, path) ==
    LET s == [s0 EXCEPT !.out = [Entered(s0, "watch", u, NoData, EmptyStr)
                                 EXCEPT !.op = "start_directory_watch",
                                        !.target = path]]
        started(h) ==
            [s EXCEPT !.obs = @ \cup {[handle |-> h, path |-> path, user |-> u]},
                      !.watch = Append(@, [path |-> path, user |-> u, observer |-> h]),
                      !.out.reply = "started"]
    IN IF ~Exists(s.fs, path) THEN Reply(s, "failed")
       ELSE started(CHOOSE h \in 1..(Cardinality(s.obs) + 1) :
                            \A o \in s.obs : o.handle # h)

\* security.is_user_allowed: membership in the stored allow-list
is_user_allowed(s, u) == u \in s.allowed

\* check_access with the allow-list test dropped
check_access_open(s, u) == TRUE

\* check_access that also admits whoever has a prompt pending
check_access_pending(s, u) == is_user_allowed(s, u) \/ u \in DOMAIN s.us

\* security.check_access
check_access(s, u) == is_user_allowed(s, u)

\* security.get_user_directory: "" when none was stored
get_user_directory(s, u) ==
    IF u \in DOMAIN s.dirs THEN s.dirs[u] ELSE EmptyStr

\* set_user_directory keeping the directory in the user's session entry
set_user_directory_in_session(s, u, path) ==
    [s EXCEPT !.us = SetKey(s.us, u, [current_dir |-> path])]

\* set_user_directory storing only a path that can be listed
set_user_directory_listed(s, u, path) ==
    IF Exists(s.fs, path) THEN [s EXCEPT !.dirs = SetKey(s.dirs, u, path)] ELSE s

\* security.set_user_directory
set_user_directory(s, u, path) == [s EXCEPT !.dirs = SetKey(s.dirs, u, path)]

\* s[:n] of a list
Take(seq, n) == Slice(seq, n)

\* the entry limit of a rendered keyboard: folders[:15], files[:15]
MaxButtons == 15

\* the controls of a keyboard: one per path, verb followed by the path token;
\* path is the path the control was rendered for; the front-end delivers a
\* keyboard as it is built, whatever the length of its callback data
Render(u, verb, paths) ==
    {[user |-> u, verb |-> verb, arg |-> encode_path(paths[i]), path |-> paths[i]] :
        i \in 1..Len(paths)}

RECURSIVE SelectDirs(_, _, _)
\* [i for i in items if i['is_dir']] (want) / [... if not i['is_dir']]
SelectDirs(f, seq, want) ==
    IF seq = <<>> THEN <<>>
    ELSE IF IsDir(f, Head(seq)) = want
         THEN <<Head(seq)>> \o SelectDirs(f, Tail(seq), want)
         ELSE SelectDirs(f, Tail(seq), want)

\* the lines of one group of the directory summary: folders[:10], files[:10]
GroupLines == 10

\* the "... and N more" line of a list of n entries of which shown are shown
MoreLine(n, shown) == IF n > shown THEN <<n - shown>> ELSE <<>>

\* bot.browse_directory: the requested path is stored before it is listed;
\* the text shows the first folders and the first files, each group with its
\* own "more" line, and the keyboard a control for each of folders[:15] and
\* of files[:15]
browse_directory(s, u, path) ==
    LET shown(nav, fo, fi) ==
            [entries |-> Len(fo) + Len(fi), items |-> nav.items,
             lines |-> Len(Take(fo, GroupLines)) + Len(Take(fi, GroupLines)),
             more |-> MoreLine(Len(fo), GroupLines) \o MoreLine(Len(fi), GroupLines),
             buttons |-> Len(Take(fo, MaxButtons)) + Len(Take(fi, MaxButtons))]
        listed(s1, nav, folders, files) ==
            IF nav.error # ""
            THEN Reply([s1 EXCEPT !.out.msg = [text |-> nav.error, ref |-> path]],
                       "listing_error")
            ELSE IF nav.items = <<>> THEN Reply(s1, "empty")
            ELSE Reply([s1 EXCEPT
                            !.ctl = @ \cup Render(u, "dirb_", Take(folders, MaxButtons))
                                      \cup Render(u, "fileb_", Take(files, MaxButtons)),
                            !.out.view = shown(nav, folders, files)],
                       "listing")
    IN  CHOOSE r \in UNION {{listed(s1, nav, folders, files) :
                                s1 \in {Call(set_user_directory(s, u, path),
                                             "browse_directory", path)},
                                folders \in {SelectDirs(s.fs, nav.items, TRUE)},
                                files \in {SelectDirs(s.fs, nav.items, FALSE)}} :
                            nav \in {navigate_to_path(s.fs, path)}} : TRUE

\* the processes asked of process_manager: list_processes(limit=30)
ListLimit == 30

\* the lines of the process summary: processes[:20]
SummaryLines == 20

\* bot.list_processes_callback on the processes that list_processes returns:
\* a line for each of processes[:20], a "more" line for the rest, and a
\* control for each of processes[:15]
list_processes_callback(s) ==
    LET listed(n) ==
            IF n = 0 THEN Reply(s, "no_processes")
            ELSE Reply([s EXCEPT !.out.view =
                            [entries |-> n, items |-> <<>>,
                             lines |-> IF n > SummaryLines THEN SummaryLines ELSE n,
                             more |-> MoreLine(n, SummaryLines),
                             buttons |-> IF n > MaxButtons THEN MaxButtons ELSE n]],
                       "result")
    IN listed(IF s.procs > ListLimit THEN ListLimit ELSE s.procs)

\* the verbs of keyboards.get_file_actions_menu
FileActionVerbs ==
    {"file_downloadb_", "file_deleteb_", "file_renameb_", "file_moveb_", "file_copyb_"}

\* keyboards.get_file_actions_menu: five controls carrying encode_path(file_path)
get_file_actions_menu(u, file_path) ==
    UNION {Render(u, v, <<file_path>>) : v \in FileActionVerbs}

\* bot.show_file_actions
show_file_actions(s, u, file_path) ==
    LET s1 == Call(s, "show_file_actions", file_path)
    IN  IF ~Exists(s.fs, file_path) THEN Reply(s1, "file_not_found")
        ELSE IF IsDir(s.fs, file_path) THEN browse_directory(s, u, file_path)
        ELSE Reply([s1 EXCEPT !.ctl = @ \cup get_file_actions_menu(u, file_path)],
                   "file_actions")

\* the size above which download_file_callback sends nothing: 50 MB
SendCeiling == 50 * 1024 * 1024

\* download_file_callback without the test of the size
download_file_callback_unbounded(s, u, file_path) ==
    LET s1 == Call(s, "download_file", file_path)
    IN  IF IsFile(s.fs, file_path) THEN Reply(s1, "document")
        ELSE Reply(s1, "download_error")
\* bot.download_file_callback: stat fails on a missing path and open on a
\* directory, and the failure is answered; a file above the ceiling is
\* refused before it is opened, any other file is handed to reply_document
download_file_callback(s, u, file_path) ==
    LET s1 == Call(s, "download_file", file_path)
    IN  IF ~Exists(s.fs, file_path) THEN Reply(s1, "download_error")
        ELSE IF s.fs[file_path].size > SendCeiling THEN Reply(s1, "too_large")
        ELSE IF IsFile(s.fs, file_path) THEN Reply(s1, "document")
        ELSE Reply(s1, "download_error")

\* bot.show_drives
show_drives(s) ==
    IF get_drives(s.fs) = <<>> THEN Reply(s, "no_drives") ELSE Reply(s, "drives")

\* Task.cancel() that lets a task still in asyncio.sleep go on
CancelTask_late(ts, h) ==
    IF ts[h].status \in {"sleeping", "replying"}
    THEN [ts EXCEPT ![h].cancel_requested = TRUE]
    ELSE ts

\* Task.cancel(): a task still in asyncio.sleep never resumes; a task that is
\* sending its completion message runs its finally block; a finished one is
\* unaffected
CancelTask(ts, h) ==
    IF ts[h].status = "sleeping" THEN [ts EXCEPT ![h].status = "cancelled"]
    ELSE IF ts[h].status = "replying" THEN [ts EXCEPT ![h].cancel_requested = TRUE]
    ELSE ts

\* bot.start_timer
start_timer(s, u, action) ==
    LET hasOld == u \in DOMAIN s.us /\ HasKey(s.us[u], "timer_task")
        ts1 == IF hasOld THEN CancelTask(s.tasks, s.us[u].timer_task) ELSE s.tasks
        ts2 == Append(ts1, [user |-> u, action |-> action, status |-> "sleeping",
                            cancel_requested |-> FALSE])
        s1  == Reply([s EXCEPT !.tasks = ts2], "timer_set")
    IN  IF u \in DOMAIN s.us
        THEN [s1 EXCEPT !.us[u] = SetKey(@, "timer_task", Len(ts2))]
        ELSE Raise(s1, "KeyError")

(***************************************************************************)
(* bot.button_handler                                                      *)
(***************************************************************************)

\* the tokens that store a pending action, and the action they store
PromptAction ==
    [proc_run |-> "run_process", proc_kill |-> "kill_process",
     proc_restart |-> "restart_process", proc_priority |-> "change_priority",
     proc_watch |-> "watch_process", sys_shutdown |-> "confirm_shutdown",
     sys_restart |-> "confirm_restart", net_ping |-> "ping_host",
     net_dns |-> "dns_lookup", mon_watch_dir |-> "watch_directory",
     extra_cmd |-> "execute_cmd", extra_open_url |-> "open_url",
     extra_clipboard_set |-> "set_clipboard", set_password |-> "change_password"]

\* the tokens that store a pending action on a path, and the action
PathPromptAction ==
    [file_renameb_ |-> "rename_file", file_moveb_ |-> "move_file",
     file_copyb_ |-> "copy_file"]

\* the tokens that only show another menu
MenuTokens ==
    {"menu_main", "menu_process", "menu_system", "sys_set_timer", "menu_network",
     "menu_monitor", "menu_extra", "extra_hotkeys", "extra_mouse", "menu_settings"}

\* the tokens that show the drive list
DriveListTokens == {"menu_files", "file_root", "file_back"}

\* the tokens that run a collaborator at once, and the collaborator
CollabOp ==
    [proc_list |-> "list_processes", sys_sleep |-> "sleep_pc", sys_lock |-> "lock_pc",
     sys_screenshot |-> "take_screenshot", sys_webcam |-> "capture_webcam",
     sys_mic_record |-> "record_audio", sys_clipboard |-> "get_clipboard_content",
     sys_cleanup |-> "clean_temp_files", sys_disk_top |-> "get_top_large_folders",
     sys_monitor_off |-> "turn_off_monitor", net_show_ip |-> "get_public_ip",
     net_netstat |-> "netstat", net_speedtest |-> "run_speedtest",
     mon_cpu |-> "get_cpu_usage", mon_ram |-> "get_ram_usage",
     mon_stop |-> "stop_all_watchers", extra_keylogger |-> "set_keylogger_status",
     extra_windows |-> "get_open_windows", hk_win_d |-> "press_hotkey",
     hk_alt_f4 |-> "press_hotkey", hk_win_e |-> "press_hotkey",
     extra_active_window |-> "get_active_window", extra_audio |-> "record_audio",
     extra_startup_on |-> "set_startup_status", extra_startup_off |-> "set_startup_status",
     set_users |-> "get_allowed_users", set_status |-> "get_full_system_report",
     confirm_shutdown |-> "shutdown_pc", confirm_restart |-> "restart_pc"]

\* the tokens that carry a number and run a collaborator on it
IntCollabOp ==
    [win_close_ |-> "close_window", proc_kill_pid_ |-> "kill_process",
     proc_restart_pid_ |-> "restart_process"]

\* the tokens that carry a number and only show a menu for it
IntMenuTokens == {"win_action_", "proc_action_"}

\* the tokens that start a timer, and the timer's action
TimerAction == [timer_sleep_ |-> "sleep", timer_shutdown_ |-> "shutdown"]

\* the tokens that cancel
CancelTokens == {"cancel_action", "cancel_input"}

\* the path-addressed branches: decode the token, then act on the path
path_branch(s, u, data) ==
    LET d == decode_path(data.arg)
        v == data.verb
    IN  IF ~d.ok THEN Raise(s, d.err)
        ELSE IF v = "dirb_" THEN browse_directory(s, u, d.val)
        ELSE IF v = "fileb_" THEN show_file_actions(s, u, d.val)
        ELSE IF v = "file_downloadb_" THEN download_file_callback(s, u, d.val)
        ELSE IF v = "file_deleteb_"
        THEN Reply([Call(s, "delete_file", d.val) EXCEPT
                        !.fs = delete_file(s.fs, d.val).fs],
                   IF delete_file(s.fs, d.val).ok THEN "deleted" ELSE "path_not_found")
        ELSE Reply([Call(s, "prompt", d.val) EXCEPT
                        !.us = SetKey(s.us, u, [action |-> PathPromptAction[v],
                                                file_path |-> d.val])],
                   "prompt")

\* the state and the outcome of bot.button_handler for user u and callback data;
\* query.edit_message_text replaces the keyboard of the message the button is on
button_branches(s0, u, data) ==
    LET s == [s0 EXCEPT !.out = Entered(s0, "button", u, data, <<>>),
                        !.ctl = {c \in @ : c.user # u}]
        v == data.verb
    IN  IF ~check_access(s, u) THEN Reply(s, "denied")
        ELSE IF v \in MenuTokens THEN Reply(s, "menu")
        ELSE IF v \in DOMAIN PromptAction
        THEN Reply([s EXCEPT !.us = SetKey(s.us, u, [action |-> PromptAction[v]])],
                   "prompt")
        ELSE IF v \in DriveListTokens THEN show_drives(s)
        ELSE IF v = "file_refresh"
        THEN browse_directory(s, u, get_user_directory(s, u))
        ELSE IF v = "drive_" THEN browse_directory(s, u, data.arg \o <<Colon, Sep>>)
        ELSE IF v = "dir_up"
        THEN browse_directory(s, u, get_parent_directory(get_user_directory(s, u)))
        ELSE IF v \in {"dirb_", "fileb_"} \cup FileActionVerbs THEN path_branch(s, u, data)
        ELSE IF v \in DOMAIN TimerAction
        THEN (IF IsIntText(data.arg) THEN start_timer(s, u, TimerAction[v])
              ELSE Raise(s, "ValueError"))
        ELSE IF v \in DOMAIN CollabOp
        THEN (IF CollabOp[v] \in LongRunning
              THEN Block(Reply(s, "progress"), u, CollabOp[v])
              ELSE IF v = "mon_stop"
              THEN Reply(Call(stop_all_watchers(s), CollabOp[v], <<>>), "result")
              ELSE IF v = "proc_list"
              THEN list_processes_callback(Call(s, CollabOp[v], <<>>))
              ELSE Reply(Call(s, CollabOp[v], <<>>), "result"))
        ELSE IF v \in IntMenuTokens
        THEN (IF IsIntText(data.arg) THEN Reply(s, "menu") ELSE Raise(s, "ValueError"))
        ELSE IF v \in DOMAIN IntCollabOp
        THEN (IF IsIntText(data.arg) THEN Reply(Call(s, IntCollabOp[v], <<>>), "result")
              ELSE Raise(s, "ValueError"))
        ELSE IF v = "mouse_move_" THEN Raise(s, "ValueError")
        ELSE IF v = "mouse_click_" THEN Reply(Call(s, "mouse_click", <<>>), "result")
        ELSE IF v \in CancelTokens
        THEN Reply([s EXCEPT !.us = DelKey(s.us, u)], "cancelled")
        ELSE s

\* bot.button_handler: a branch that raises before it answers leaves the
\* message and its keyboard as they were
button_handler(s0, u, data) ==
    LET r == button_branches(s0, u, data)
    IN  IF r.out.reply = "none" THEN [r EXCEPT !.ctl = s0.ctl] ELSE r

(***************************************************************************)
(* bot.auth_command, bot.cancel_command, bot.handle_message                *)
(***************************************************************************)

\* bot.start_command: a welcome, with the main menu for a user on the
\* allow-list and with the hint to authenticate for anyone else
start_command(s0, u) ==
    LET s == [s0 EXCEPT !.out = Entered(s0, "start", u, NoData, <<>>)]
    IN  IF ~is_user_allowed(s, u) THEN Reply(s, "authenticate_first")
        ELSE Reply(s, "main_menu")

\* bot.help_command: the help text, for anyone
help_command(s0, u) ==
    Reply([s0 EXCEPT !.out = Entered(s0, "help", u, NoData, <<>>)], "help")

\* bot.status_command: the system report of monitor, behind the access check
status_command(s0, u) ==
    LET s == [s0 EXCEPT !.out = Entered(s0, "status", u, NoData, <<>>)]
    IN  IF ~check_access(s, u) THEN Reply(s, "denied")
        ELSE Reply(Call(s, "get_full_system_report", <<>>), "report")

\* bot.auth_command: no access check, any stored dict is replaced
auth_command(s0, u) ==
    LET s == [s0 EXCEPT !.out = Entered(s0, "auth", u, NoData, <<>>)]
    IN  Reply([s EXCEPT !.us = SetKey(s.us, u, [action |-> "auth_password"])], "prompt")

\* cancel_command without "del user_states[user_id]"
cancel_command_keeps(s0, u) ==
    Raise(Reply([s0 EXCEPT !.out = Entered(s0, "cancel", u, NoData, <<>>)], "cancelled"),
          "NameError")

\* bot.cancel_command: the entry is deleted and the reply sent before the
\* return statement names ConversationHandler, which bot.py never imports
cancel_command(s0, u) ==
    LET s == [s0 EXCEPT !.out = Entered(s0, "cancel", u, NoData, <<>>)]
    IN  Raise(Reply([s EXCEPT !.us = DelKey(s.us, u)], "cancelled"), "NameError")

\* the continuation of handle_message for a pending action other than
\* auth_password; Done is "del user_states[user_id]"
continuation(s, u, action, text) ==
    LET Done(x) == [x EXCEPT !.us = DelKey(x.us, u)]
        state == s.us[u]
        file_path == IF HasKey(state, "file_path") THEN state.file_path ELSE <<>>
        IntArg(op) == IF IsIntText(text) THEN Reply(Call(s, op, <<>>), "result")
                      ELSE Reply(s, "invalid_pid")
        FileOp(op, r) == Reply([Call(s, op, file_path) EXCEPT
                                    !.fs = r.fs,
                                    !.out.msg = [text |-> r.msg, ref |-> r.ref]],
                               IF r.ok THEN "result" ELSE "failure")
    IN  CASE action = "run_process" -> Done(Reply(Call(s, "run_process", <<>>), "result"))
          [] action = "kill_process" -> Done(IntArg("kill_process"))
          [] action = "restart_process" -> Done(IntArg("restart_process"))
          [] action = "change_priority" ->
                IF Len(text_split(text)) # 2 THEN Reply(s, "format_error")
                ELSE IF IsIntText(text_split(text)[1])
                THEN Done(Reply(Call(s, "change_priority", <<>>), "result"))
                ELSE Done(Reply(s, "invalid_format"))
          [] action = "watch_process" -> Done(IntArg("watch_process"))
          [] action = "ping_host" -> Done(Reply(Call(s, "ping_host", <<>>), "result"))
          [] action = "dns_lookup" -> Done(Reply(Call(s, "dns_lookup", <<>>), "result"))
          [] action = "execute_cmd" -> Block(s, u, "subprocess.run")
          [] action = "set_clipboard" ->
                Done(Reply(Call(s, "set_clipboard_content", <<>>), "result"))
          [] action = "open_url" -> Done(Reply(Call(s, "open_url", <<>>), "result"))
          [] action = "change_password" ->
                Done(Reply([Call(s, "change_password", <<>>) EXCEPT !.pw = text], "result"))
          [] action = "rename_file" ->
                Done(FileOp("rename_file", rename_file(s.fs, file_path, text)))
          [] action = "move_file" ->
                Done(FileOp("move_file", move_file(s.fs, file_path, text)))
          [] action = "copy_file" ->
                Done(FileOp("copy_file", copy_file(s.fs, file_path, text)))
          [] action = "watch_directory" -> Raise(s, "NameError")  \* see on_change
          [] action = "confirm_shutdown" ->
                IF LowerStr(text) \in ConfirmWords
                THEN Done(Reply(Call(s, "shutdown_pc", <<>>), "result"))
                ELSE Done(Reply(s, "shutdown_cancelled"))
          [] action = "confirm_restart" ->
                IF LowerStr(text) \in ConfirmWords
                THEN Done(Reply(Call(s, "restart_pc", <<>>), "result"))
                ELSE Done(Reply(s, "restart_cancelled"))
          [] OTHER -> Reply(s, "unknown_action")

\* verify_password accepting every text
verify_password_any(s, entered_password) == TRUE
\* security.verify_password: the text is the stored password
verify_password(s, entered_password) == entered_password = s.pw

\* the state and the outcome of bot.handle_message for user u and a text
handle_message(s0, u, text) ==
    LET s == [s0 EXCEPT !.out = Entered(s0, "text", u, NoData, text)]
    IN  IF get_action(s, u) = "auth_password"
        THEN (IF verify_password(s, text)
              THEN Reply([s EXCEPT !.allowed = @ \cup {u}, !.us = DelKey(s.us, u)],
                         "auth_ok")
              ELSE Reply([s EXCEPT !.us = DelKey(s.us, u)], "auth_wrong"))
        ELSE IF ~check_access(s, u) THEN Reply(s, "denied")
        ELSE IF u \notin DOMAIN s.us THEN Reply(s, "use_menu")
        ELSE continuation(s, u, get_action(s, u), text)

\* bot.handle_document for user u and a document, whose file_name the
\* sender chooses and may leave out (None): the name is joined to the stored
\* directory as it is, and download_to_drive opens the joined path for
\* writing, which fails on a directory and below a missing directory and
\* replaces a file that exists
handle_document(s0, u, document) ==
    LET saved(s, save_path) ==
            IF IsDir(s.fs, save_path) \/ ~IsDir(s.fs, path_parent(save_path))
            THEN Reply(s, "save_error")
            ELSE Reply([s EXCEPT !.fs = SetKey(@, save_path, File(4))], "saved")
        joined(s, current_dir) ==
            IF ~check_access(s, u) THEN Reply(s, "denied")
            ELSE IF current_dir = EmptyStr THEN Reply(s, "open_directory_first")
            ELSE IF ~document.has_name THEN Raise(s, "TypeError")
            ELSE saved(Call(s, "download_to_drive",
                            path_join(path_str(current_dir), document.file_name)),
                       path_join(path_str(current_dir), document.file_name))
    IN  joined([s0 EXCEPT !.out = Entered(s0, "document", u, NoData, document.file_name)],
               get_user_directory(s0, u))

\* the rest of a handler whose long-running collaborator returns: the
\* result is sent, and handle_message deletes the user's entry
collaborator_returns(s0) ==
    LET s == Reply([s0 EXCEPT !.run = NoCall], "result")
    IN  IF s.out.sig = "text" THEN [s EXCEPT !.us = DelKey(s.us, s0.run.user)] ELSE s

(***************************************************************************)
(* The timer task of bot.start_timer                                       *)
(***************************************************************************)

\* timer_task_func up to its await of reply_text: the sleep is over and the
\* sleep / shutdown collaborator has run
timer_wake(s0, h) ==
    LET s == [s0 EXCEPT !.out = [Entered(s0, "timer", s0.tasks[h].user, NoData, <<>>)
                                EXCEPT !.timer = h]]
    IN  Call([s EXCEPT !.tasks[h].status = "replying"],
             IF s.tasks[h].action = "sleep" THEN "sleep_pc" ELSE "shutdown_pc", <<>>)

\* the finally block deleting the user's whole entry
timer_finish_clears(s0, h) ==
    LET u == s0.tasks[h].user
        s == [s0 EXCEPT !.out = [Entered(s0, "timer_done", u, NoData, <<>>)
                                EXCEPT !.timer = h]]
        s1 == [s EXCEPT !.tasks[h].status = "done"]
    IN  [s1 EXCEPT !.us = DelKey(@, u)]

\* the finally block of timer_task_func: whatever handle the user's dict
\* holds under 'timer_task' is deleted
timer_finish(s0, h) ==
    LET u == s0.tasks[h].user
        s == [s0 EXCEPT !.out = [Entered(s0, "timer_done", u, NoData, <<>>)
                                EXCEPT !.timer = h]]
        s1 == [s EXCEPT !.tasks[h].status = "done"]
    IN  IF u \in DOMAIN s.us /\ HasKey(s.us[u], "timer_task")
        THEN [s1 EXCEPT !.us[u] = DelKey(@, "timer_task")]
        ELSE s1

(***************************************************************************)
(* The watcher of monitor.py and the sink of handle_message                *)
(***************************************************************************)

\* monitor.DirectoryChangeHandler.on_created, on_deleted, on_modified and
\* on_moved: the event type given to the callback, "none" when the callback
\* is not called (a modified directory)
callback_type(kind, is_directory) ==
    IF ~is_directory THEN kind
    ELSE IF kind = "modified" THEN "none"
    ELSE "dir_" \o kind

\* on_change, the closure that handle_message builds for user u and names as
\* the callback of start_directory_watch, called on thread th: it takes
\* context.bot and calls send_message on it, and drops the coroutine that the
\* call returns, so that nothing is sent; an exception of that call, when
\* send_raises, is swallowed by the except clause around it
on_change_unguarded(s0, th, u, event_type, path, dest_path, send_raises) ==
    [s0 EXCEPT !.out = [Entered(s0, "change", u, [NoData EXCEPT !.verb = event_type],
                                dest_path)
                        EXCEPT !.thread = th, !.op = "context.bot.send_message",
                               !.target = path,
                               !.fault = IF send_raises THEN "Exception" ELSE "none"]]
on_change(s0, th, u, event_type, path, dest_path, send_raises) ==
    [s0 EXCEPT !.out = [Entered(s0, "change", u, [NoData EXCEPT !.verb = event_type],
                                dest_path)
                        EXCEPT !.thread = th, !.op = "context.bot.send_message",
                               !.target = path,
                               !.msg = IF send_raises
                                       THEN [text |-> "Exception swallowed", ref |-> path]
                                       ELSE NoMsg]]

(***************************************************************************)
(* Initial state and actions                                               *)
(***************************************************************************)

\* "C:\"
DriveC == <<67, Colon, Sep>>

\* n times the letter 'a'
LongName(n) == [i \in 1..n |-> 97]

\* the host filesystem: drive C: with one directory whose name has n letters
\* and, inside it, entries whose paths lie on both sides of the 45 bytes that
\* a path token can carry (b, bb, bbb, b+Cyrillic de, Cyrillic de)
HostFs(n) ==
    LET D == DriveC \o LongName(n)
    IN  (DriveC :> Dir) @@ (D :> Dir)
        @@ ((D \o <<Sep, 98>>) :> File(1))
        @@ ((D \o <<Sep, 98, 98>>) :> Dir)
        @@ ((D \o <<Sep, 98, 98, 98>>) :> Dir)
        @@ ((D \o <<Sep, 98, 1076>>) :> File(2))
        @@ ((D \o <<Sep, 1076>>) :> File(3))

NoOut ==
    [sig |-> "none", user |-> 0, data |-> NoData, text |-> <<>>, pending |-> "none",
     timer |-> 0, reply |-> "none", fault |-> "none", op |-> "none", target |-> <<>>,
     thread |-> "none", msg |-> NoMsg, view |-> NoView]

\* the state after construction: the default configuration of
\* security.load_config, no session, no timer, nothing rendered
Init ==
    /\ user_states = <<>>
    /\ allowed_user_ids = {}
    /\ password = DefaultPassword
    /\ current_directories = <<>>
    /\ tasks = <<>>
    /\ fs = HostFs(DirNameLen)
    /\ controls = {}
    /\ running = NoCall
    /\ watchers = <<>>
    /\ observers = {}
    /\ processes = 1
    /\ out = NoOut

\* the state becomes r
Becomes(r) ==
    /\ user_states' = r.us
    /\ allowed_user_ids' = r.allowed
    /\ password' = r.pw
    /\ current_directories' = r.dirs
    /\ tasks' = r.tasks
    /\ fs' = r.fs
    /\ controls' = r.ctl
    /\ running' = r.run
    /\ watchers' = r.watch
    /\ observers' = r.obs
    /\ processes' = r.procs
    /\ out' = r.out

\* callback data with a fixed text
Fixed(v) == [verb |-> v, arg |-> <<>>, path |-> <<>>, rendered |-> FALSE]

\* callback data with a verb and an argument that no keyboard rendered from a path
WithArg(v, a) == [verb |-> v, arg |-> a, path |-> <<>>, rendered |-> FALSE]

\* a path-addressed control as it is pressed
Pressed(c) == [verb |-> c.verb, arg |-> c.arg, path |-> c.path, rendered |-> TRUE]

\* "10", the minutes of the first buttons of keyboards.get_timer_menu
TenMinutes == <<49, 48>>

\* the fixed tokens of the keyboards
FixedTokens ==
    MenuTokens \cup DOMAIN PromptAction \cup DriveListTokens \cup CancelTokens
    \cup (DOMAIN CollabOp \ {"confirm_shutdown", "confirm_restart"})
    \cup {"file_refresh", "dir_up", "file_current"}

\* the tokens with an argument, as the keyboards render them
ArgTokens ==
    {WithArg(v, TenMinutes) : v \in DOMAIN TimerAction \cup DOMAIN IntCollabOp
                                    \cup IntMenuTokens}
    \cup {WithArg("drive_", <<67>>), WithArg("mouse_click_", <<108>>),
          WithArg("mouse_move_", <<48, 95, 49, 48>>),
          WithArg("confirm_shutdown", <<95, 49>>), WithArg("confirm_restart", <<95, 49>>)}

\* corrupted path tokens: "a" (one data character), "/w" (the byte FF, not
\* UTF-8), "YQ!" (a character outside the alphabet, then a dangling group)
CorruptTokens ==
    {WithArg(v, a) : v \in {"dirb_", "fileb_"} \cup FileActionVerbs,
                     a \in { <<97>>, <<47, 119>>, <<89, 81, 33>> }}

\* the one thread of the event loop is inside no handler: run_polling
\* processes the updates one after the other and runs the timer tasks on
\* the same thread
LoopFree == running = NoCall

\* a button press: bot.button_handler
ButtonHandler(u, data) ==
    /\ LoopFree
    /\ data.verb \in DOMAIN TimerAction => Len(tasks) < MaxTimers
    /\ \E r \in {button_handler(Cur, u, data)} : Becomes(r)

\* /auth
AuthCommand(u) == LoopFree /\ \E r \in {auth_command(Cur, u)} : Becomes(r)

\* /start, /help or /status
Command(u, name) ==
    /\ LoopFree
    /\ \E r \in {IF name = "start" THEN start_command(Cur, u)
                  ELSE IF name = "help" THEN help_command(Cur, u)
                  ELSE status_command(Cur, u)} :
          Becomes(r)

\* /cancel
CancelCommand(u) == LoopFree /\ \E r \in {cancel_command(Cur, u)} : Becomes(r)

\* a text message that is not a command: bot.handle_message
HandleMessage(u, text) == LoopFree /\ \E r \in {handle_message(Cur, u, text)} : Becomes(r)

\* a message that carries a document: bot.handle_document
HandleDocument(u, document) ==
    LoopFree /\ \E r \in {handle_document(Cur, u, document)} : Becomes(r)

\* asyncio.sleep of timer task h returns
TimerWake(h) ==
    /\ LoopFree
    /\ tasks[h].status = "sleeping"
    /\ \E r \in {timer_wake(Cur, h)} : Becomes(r)

\* the completion message of timer task h is sent, or its await is cancelled
TimerFinish(h) ==
    /\ LoopFree
    /\ tasks[h].status = "replying"
    /\ \E r \in {timer_finish(Cur, h)} : Becomes(r)

\* a watchdog observer thread hands an event of the given kind on path, a
\* moved one with its destination, to the DirectoryChangeHandler whose
\* callback is the sink of user u
ObserverDispatches(u, kind, path, dest_path, is_directory, send_raises) ==
    /\ callback_type(kind, is_directory) # "none"
    /\ kind # "moved" => dest_path = EmptyStr
    /\ \E r \in {on_change(Cur, "observer", u, callback_type(kind, is_directory),
                            path, dest_path, send_raises)} :
          Becomes(r)

\* the running observer thread o picks an event on a path under its
\* directory from its queue and calls the handler scheduled on it, whose
\* callback is the sink given to start_directory_watch; an exception that
\* leaves the handler ends the thread (watchdog's EventDispatcher.run)
WatcherEvent(o, kind, path, is_directory, send_raises) ==
    /\ o \in observers
    /\ IsUnder(path, o.path)
    /\ callback_type(kind, is_directory) # "none"
    /\ \E r \in {on_change(Cur, "observer", o.user, callback_type(kind, is_directory),
                            path, EmptyStr, send_raises)} :
          Becomes(IF r.out.fault = "none" THEN r ELSE [r EXCEPT !.obs = @ \ {o}])

\* monitor.start_directory_watch is called for a path, with the sink of user u
StartDirectoryWatch(u, path) ==
    /\ Len(watchers) < MaxWatchers
    /\ \E r \in {start_directory_watch(Cur, u, path)} : Becomes(r)

\* the long-running collaborator returns to the handler that called it
CollaboratorReturns ==
    /\ running # NoCall
    /\ \E r \in {collaborator_returns(Cur)} : Becomes(r)

(***************************************************************************)
(* Specifications                                                          *)
(***************************************************************************)

\* "12"
TextPid == <<49, 50>>

\* the free texts the users send: the password, "yes", "Да", "12", "12 high",
\* "C:\"
Texts ==
    {DefaultPassword, <<121, 101, 115>>, <<1044, 1072>>, TextPid,
     <<49, 50, 32, 104, 105, 103, 104>>, DriveC}

\* ---- Spec: two users, pending actions, timers, cancels ----

\* the callback data the users send: a prompt, both cancels, both timers
SessionData ==
    {Fixed(v) : v \in {"proc_run"} \cup CancelTokens}
    \cup {WithArg(v, TenMinutes) : v \in DOMAIN TimerAction}

Next ==
    \/ \E u \in Users : \E data \in SessionData : ButtonHandler(u, data)
    \/ \E u \in Users : AuthCommand(u)
    \/ \E u \in Users : CancelCommand(u)
    \/ \E u \in Users : \E text \in {DefaultPassword, TextPid} : HandleMessage(u, text)
    \/ \E h \in DOMAIN tasks : TimerWake(h)
    \/ \E h \in DOMAIN tasks : TimerFinish(h)

Spec == Init /\ [][Next]_vars

\* the user of the one-user specifications
Operator == CHOOSE u \in Users : \A v \in Users : u <= v

\* ---- SpecLive: one user's timers under the scheduling of the event loop ----

NextLive ==
    \/ \E data \in SessionData : ButtonHandler(Operator, data)
    \/ AuthCommand(Operator)
    \/ CancelCommand(Operator)
    \/ \E text \in {DefaultPassword, TextPid} : HandleMessage(Operator, text)
    \/ \E h \in DOMAIN tasks : TimerWake(h)
    \/ \E h \in DOMAIN tasks : TimerFinish(h)

\* a timer task whose sleep has ended is resumed, and so is one whose
\* completion message has been sent
SpecLive ==
    /\ Init /\ [][NextLive]_vars
    /\ \A h \in 1..MaxTimers :
          /\ WF_vars(h \in DOMAIN tasks /\ TimerWake(h))
          /\ WF_vars(h \in DOMAIN tasks /\ TimerFinish(h))

\* ---- SpecDispatch: one user, every fixed token, every pending action ----

DispatchData ==
    {Fixed(v) : v \in FixedTokens}
    \cup {d \in ArgTokens : d.verb \notin DOMAIN TimerAction}

NextDispatch ==
    \/ \E data \in DispatchData : ButtonHandler(Operator, data)
    \/ AuthCommand(Operator)
    \/ CancelCommand(Operator)
    \/ \E text \in Texts : HandleMessage(Operator, text)
    \/ CollaboratorReturns

SpecDispatch == Init /\ [][NextDispatch]_vars

\* ---- SpecNav: one user browsing the host filesystem ----

\* the callback data of the file explorer: its fixed tokens, the drive, the
\* path-addressed controls rendered so far, corrupted path tokens
NavData(u) ==
    {Fixed(v) : v \in {"menu_files", "file_refresh", "dir_up"}}
    \cup {WithArg("drive_", <<67>>)}
    \cup CorruptTokens
    \cup {Pressed(c) : c \in {x \in controls : x.user = u}}

NextNav ==
    \/ \E data \in NavData(Operator) : ButtonHandler(Operator, data)
    \/ AuthCommand(Operator)
    \/ HandleMessage(Operator, DefaultPassword)

SpecNav == Init /\ [][NextNav]_vars

\* ---- SpecFrame: one user navigating with an action pending and a timer ----

\* the pure navigation tokens
NavigationVerbs == DriveListTokens \cup {"file_refresh", "drive_", "dirb_", "dir_up"}

\* the callback data: every navigation token, a prompt and a timer
FrameData(u) ==
    {Fixed(v) : v \in DriveListTokens \cup {"file_refresh", "dir_up", "proc_run"}}
    \cup {WithArg("drive_", <<67>>), WithArg("timer_sleep_", TenMinutes)}
    \cup {Pressed(c) : c \in {x \in controls : x.user = u /\ x.verb = "dirb_"}}

NextFrame ==
    \/ \E data \in FrameData(Operator) : ButtonHandler(Operator, data)
    \/ AuthCommand(Operator)
    \/ HandleMessage(Operator, DefaultPassword)
    \/ \E h \in DOMAIN tasks : TimerWake(h)
    \/ \E h \in DOMAIN tasks : TimerFinish(h)

SpecFrame == Init /\ [][NextFrame]_vars

\* ---- SpecLoop: two users and the long-running collaborators ----

NextLoop ==
    \/ \E u \in Users, v \in {"net_speedtest", "sys_mic_record", "extra_cmd"} :
            ButtonHandler(u, Fixed(v))
    \/ \E u \in Users : AuthCommand(u)
    \/ \E u \in Users, text \in {DefaultPassword, TextPid} : HandleMessage(u, text)
    \/ CollaboratorReturns

SpecLoop == Init /\ [][NextLoop]_vars

\* a signal of user u is dispatched
Dispatches(u) == NextLoop /\ out'.user = u /\ out' # out

\* ---- SpecFiles: one user renaming, moving and copying the files of a directory ----

\* the directory of the modelled drive
LongDir == DriveC \o LongName(DirNameLen)

\* the path-addressed file actions that ask for a text
FileActions == {PathPromptAction[v] : v \in DOMAIN PathPromptAction}

\* the callback data: the drive and the path-addressed controls that browse,
\* show the file actions, delete, and prompt for a new name or a destination
FilesData(u) ==
    {WithArg("drive_", <<67>>)}
    \cup {Pressed(c) : c \in {x \in controls :
                /\ x.user = u
                /\ x.verb \in {"dirb_", "fileb_", "file_deleteb_"}
                              \cup DOMAIN PathPromptAction}}

\* the texts: the password; as a new name, "bb" (taken by a directory), the
\* Cyrillic de (taken by a file) and "c" (free); as a destination, the path of
\* the existing file de and the free path c in the same directory
FilesTexts(u) ==
    {DefaultPassword}
    \cup (IF get_action(Cur, u) = "rename_file" THEN {<<98, 98>>, <<1076>>, <<99>>} ELSE {})
    \cup (IF get_action(Cur, u) \in {"move_file", "copy_file"}
          THEN {LongDir \o <<Sep, 1076>>, LongDir \o <<Sep, 99>>} ELSE {})

NextFiles ==
    \/ \E data \in FilesData(Operator) : ButtonHandler(Operator, data)
    \/ AuthCommand(Operator)
    \/ \E text \in FilesTexts(Operator) : HandleMessage(Operator, text)

SpecFiles == Init /\ [][NextFiles]_vars

\* ---- SpecSink: the sink of the directory watcher, called by observer threads ----

NextSink ==
    \E u \in Users, kind \in {"created", "deleted", "modified", "moved"}, path \in DOMAIN fs,
       dest_path \in DOMAIN fs \cup {EmptyStr}, is_directory \in BOOLEAN,
       send_raises \in BOOLEAN :
        ObserverDispatches(u, kind, path, dest_path, is_directory, send_raises)

SpecSink == Init /\ [][NextSink]_vars

\* ---- SpecList: the two list-style answers, on hosts of every size ----

\* the most folders, and the most files, of the listed directory
MaxListed == 16

\* the most processes of the host
MaxProcs == 32

\* the drive C: with nd folders and nf files; the names are two letters, the
\* first in upper case for every other entry
WideFs(nd, nf) ==
    LET name(c, i) == <<IF i % 2 = 1 THEN c - 32 ELSE c, 97 + i>>
    IN  (DriveC :> Dir)
        @@ [p \in {DriveC \o name(100, i) : i \in 0..(nd - 1)} |-> Dir]
        @@ [p \in {DriveC \o name(102, j) : j \in 0..(nf - 1)} |-> File(1)]

\* the most folders, and the most files, of a directory with an entry
\* whose stat() fails
MaxMarked == 2

\* the filesystem f with stat() on p failing: access denied, or p a link to
\* something that is gone
Marked(f, p, st) ==
    [f EXCEPT ![p].stat = st, ![p].kind = IF st = "gone" THEN "link" ELSE @]

\* the operator is authorized and has browsed C:\, on a host with some
\* number of entries in C:\, with some number of processes, or with an
\* entry in C:\ whose stat() fails
InitList ==
    /\ user_states = <<>>
    /\ allowed_user_ids = {Operator}
    /\ password = DefaultPassword
    /\ current_directories = (Operator :> DriveC)
    /\ tasks = <<>>
    /\ \/ /\ fs \in {WideFs(nd, nf) : nd \in 0..MaxListed, nf \in 0..MaxListed}
          /\ processes = 1
       \/ /\ fs = HostFs(DirNameLen)
          /\ processes \in 0..MaxProcs
       \/ /\ fs \in UNION {{Marked(WideFs(nd, nf), p, st) :
                                p \in DOMAIN WideFs(nd, nf) \ {DriveC},
                                st \in {"denied", "gone"}} :
                            nd \in 0..MaxMarked, nf \in 0..MaxMarked}
          /\ processes = 1
    /\ controls = {}
    /\ running = NoCall
    /\ watchers = <<>>
    /\ observers = {}
    /\ out = NoOut

NextList == \E v \in {"proc_list", "file_refresh"} : ButtonHandler(Operator, Fixed(v))

SpecList == InitList /\ [][NextList]_vars

\* ---- SpecSend: files around the size ceiling are downloaded ----

\* the sizes of the file are at most this far from the ceiling
SizeMargin == 5

\* the operator is authorized, and C:\ holds a file "c" of some size near the
\* ceiling of download_file_callback
InitSend ==
    /\ user_states = <<>>
    /\ allowed_user_ids = {Operator}
    /\ password = DefaultPassword
    /\ current_directories = <<>>
    /\ tasks = <<>>
    /\ fs \in {((DriveC \o <<99>>) :> [File(0) EXCEPT !.size = sz]) @@ HostFs(DirNameLen) :
                sz \in (SendCeiling - SizeMargin)..(SendCeiling + SizeMargin)}
    /\ controls = {}
    /\ running = NoCall
    /\ watchers = <<>>
    /\ observers = {}
    /\ processes = 1
    /\ out = NoOut

\* the drive is opened, and the controls of folders, of files and of the
\* download are pressed
NextSend ==
    \E data \in {WithArg("drive_", <<67>>)}
                \cup {Pressed(c) : c \in {x \in controls :
                            x.verb \in {"dirb_", "fileb_", "file_downloadb_"}}} :
        ButtonHandler(Operator, data)

SpecSend == InitSend /\ [][NextSend]_vars

\* ---- SpecUpload: documents are sent while the explorer is used ----

\* the documents: named "c", named "bb" as a folder of the long directory
\* is, named by the absolute path "C:\c", and without a name
NextUpload ==
    \/ AuthCommand(Operator)
    \/ HandleMessage(Operator, DefaultPassword)
    \/ \E data \in {WithArg("drive_", <<67>>), WithArg("drive_", <<68>>),
                     Fixed("dir_up"), Fixed("file_refresh")}
                   \cup {Pressed(c) : c \in {x \in controls : x.verb = "dirb_"}} :
            ButtonHandler(Operator, data)
    \/ \E u \in Users,
          document \in {[has_name |-> TRUE, file_name |-> n] :
                            n \in {<<99>>, <<98, 98>>, DriveC \o <<99>>}}
                       \cup {[has_name |-> FALSE, file_name |-> EmptyStr]} :
            HandleDocument(u, document)

SpecUpload == Init /\ [][NextUpload]_vars

\* ---- SpecPrompt: prompts are opened from the menus and from the explorer ----

\* the tokens that open a prompt, the drive, and the controls of folders, of
\* files and of the file actions that open a prompt
NextPrompt ==
    \/ \E data \in {Fixed(v) : v \in DOMAIN PromptAction}
                   \cup {WithArg("drive_", <<67>>)}
                   \cup {Pressed(c) : c \in {x \in controls :
                            x.verb \in {"dirb_", "fileb_"} \cup DOMAIN PathPromptAction}} :
            ButtonHandler(Operator, data)
    \/ AuthCommand(Operator)
    \/ HandleMessage(Operator, DefaultPassword)

SpecPrompt == Init /\ [][NextPrompt]_vars

\* ---- SpecGate: two users at every entry point of the bot ----

NextGate ==
    \/ \E u \in Users, name \in {"start", "help", "status"} : Command(u, name)
    \/ \E u \in Users : AuthCommand(u)
    \/ \E u \in Users : CancelCommand(u)
    \/ \E u \in Users,
          data \in SessionData \cup {Fixed("mon_stop")} :
            ButtonHandler(u, data)
    \/ \E u \in Users, text \in {DefaultPassword, TextPid} : HandleMessage(u, text)
    \/ \E u \in Users, document \in {[has_name |-> TRUE, file_name |-> <<99>>]} :
            HandleDocument(u, document)
    \/ \E h \in DOMAIN tasks : TimerWake(h)
    \/ \E h \in DOMAIN tasks : TimerFinish(h)

SpecGate == Init /\ [][NextGate]_vars

\* ---- SpecWatch: the directory watchers of monitor, started and stopped ----

NextWatch ==
    \/ \E u \in Users, path \in {DriveC, LongDir, DriveC \o <<99>>} :
            StartDirectoryWatch(u, path)
    \/ \E u \in Users, data \in {Fixed("mon_stop")} : ButtonHandler(u, data)
    \/ \E u \in Users : AuthCommand(u)
    \/ \E u \in Users : HandleMessage(u, DefaultPassword)
    \/ \E o \in [handle : 1..MaxWatchers, path : {DriveC, LongDir}, user : Users],
          kind \in {"created", "deleted", "modified"},
          path \in {DriveC, LongDir, LongDir \o <<Sep, 98>>}, is_directory \in BOOLEAN,
          send_raises \in BOOLEAN :
            WatcherEvent(o, kind, path, is_directory, send_raises)

SpecWatch == Init /\ [][NextWatch]_vars

\* ---- SpecUp: dir_up and file_refresh pressed from every stored directory ----

MaxPathLen == 4

\* every string of at most MaxPathLen characters that set_user_directory can
\* have stored, but for the UNC paths (two leading separators)
PathInputs ==
    {p \in UNION {[1..n -> {67, 97, Colon, Sep, CurDir[1]}] : n \in 0..MaxPathLen} :
        ~(Len(p) >= 2 /\ p[1] = Sep /\ p[2] = Sep)}

\* the operator is authorized and browse_directory has stored a directory
InitUp ==
    /\ user_states = <<>>
    /\ allowed_user_ids = {Operator}
    /\ password = DefaultPassword
    /\ current_directories \in {(Operator :> p) : p \in PathInputs \cup DOMAIN HostFs(DirNameLen)
                                       \cup {LongDir \o <<Sep, 99>>}}
    /\ tasks = <<>>
    /\ fs = HostFs(DirNameLen)
    /\ controls = {}
    /\ running = NoCall
    /\ watchers = <<>>
    /\ observers = {}
    /\ processes = 1
    /\ out = NoOut

NextUp == \E v \in {"dir_up", "file_refresh"} : ButtonHandler(Operator, Fixed(v))

SpecUp == InitUp /\ [][NextUp]_vars

(***************************************************************************)
(* Properties                                                              *)
(***************************************************************************)

\* the last signal was a press of a path-addressed control that a keyboard rendered
PressedRendered == out.sig = "button" /\ out.data.rendered

\* the answers that report a target that does not exist
UnknownTargetReplies ==
    {"file_not_found", "path_not_found", "listing_error", "download_error"}

\* the exceptions of decode_path
DecodeFaults == {"binascii.Error", "UnicodeDecodeError"}

\* a record of a cancel signal: /cancel, cancel_action, cancel_input
CancelSignal(o) ==
    o.sig = "cancel" \/ (o.sig = "button" /\ o.data.verb \in CancelTokens)

\* the live timers of a user: scheduled, not fired, not cancelled
LiveTimers(u) ==
    {h \in DOMAIN tasks : tasks[h].user = u /\ tasks[h].status = "sleeping"}

\* the answers of the navigation branches
NavigationReplies == {"drives", "no_drives", "listing", "empty", "listing_error"}

\* C1: every path that a keyboard rendered into a control and whose base64
\* form fits the 60 characters of a path token comes back from decode_path
\* applied to the token that encode_path made of it
C1_RoundTrip ==
    \A c \in controls :
        Len(b64encode(utf8_encode(c.path))) <= TokenBudget
        => /\ c.arg = encode_path(c.path)
           /\ decode_path(c.arg) = [ok |-> TRUE, val |-> c.path, err |-> "none"]

\* a file control whose non-ASCII path fills the 60 characters exactly has been
\* pressed and the dispatcher showed the actions of that very path
C1_Witness ==
    /\ PressedRendered
    /\ out.data.verb = "fileb_"
    /\ Len(out.data.arg) = TokenBudget
    /\ Len(b64encode(utf8_encode(out.data.path))) = TokenBudget
    /\ \E i \in DOMAIN out.data.path : out.data.path[i] > 127
    /\ out.reply = "file_actions"
    /\ out.target = out.data.path

\* C2: a press of a path-addressed control rendered for path P makes the
\* dispatcher act on exactly P or report an unknown target, whatever the
\* length of P
C2_ActsOnRenderedPath ==
    PressedRendered =>
        /\ out.fault = "none"
        /\ out.target = out.data.path \/ out.reply \in UnknownTargetReplies

\* C3: a corrupted path token pressed by an authorized user is answered with
\* the not-found response and raises nothing out of button_handler
C3_CorruptTokenIsStale ==
    (out.sig = "button" /\ out.data \in CorruptTokens /\ out.user \in allowed_user_ids)
    => /\ out.fault = "none"
       /\ out.reply \in UnknownTargetReplies

\* C4: when handle_message has dispatched a text of an authorized user who
\* had a named action pending, and has returned, that user has no entry in
\* user_states
C4_TextCompletesAction ==
    (/\ out.sig = "text" /\ out.pending # "none" /\ out.user \in allowed_user_ids
     /\ LoopFree)
    => out.user \notin DOMAIN user_states

\* C5: every user has at most one live timer
C5_OneLiveTimer == \A u \in Users : Cardinality(LiveTimers(u)) <= 1

\* C6: the timer attached to a user when that user's cancel signal was
\* dispatched does not go on to perform its sleep or shutdown
C6_CancelDiscardsTimer ==
    [][(CancelSignal(out) /\ out.timer # 0)
       => ~(out'.sig = "timer" /\ out'.timer = out.timer)]_vars

\* C7 as stated: after a cancel signal, from whatever session state and
\* whoever sent it, the user has no entry in user_states
C7_CancelFromEveryState == CancelSignal(out) => out.user \notin DOMAIN user_states

\* C7 amended: a cancel signal that is not denied (/cancel from anyone,
\* cancel_action or cancel_input from an authorized user) leaves the user
\* without an entry, and a text that user sends next meets no pending action,
\* runs no collaborator and is answered as in Idle
C7_AcceptedCancelIsSynchronous ==
    [][/\ (CancelSignal(out') /\ out'.reply # "denied")
          => out'.user \notin DOMAIN user_states'
       /\ (CancelSignal(out) /\ out.reply # "denied"
           /\ out'.sig = "text" /\ out'.user = out.user)
          => /\ out'.pending = "none"
             /\ out'.op = "none"
             /\ out'.reply \in {"use_menu", "denied"}]_vars

\* a cancel signal met a pending action and an attached timer and left no entry
C7_Witness ==
    /\ CancelSignal(out)
    /\ out.pending # "none"
    /\ out.timer # 0
    /\ out.user \notin DOMAIN user_states

\* C8: a button press of a user who is not on the allow-list is answered
\* with the denial, runs no collaborator and changes neither the sessions nor
\* the configuration, the timers or the filesystem
C8_DeniedPressChangesNothing ==
    [][(out'.sig = "button" /\ out'.user \notin allowed_user_ids)
       => /\ out'.reply = "denied"
          /\ out'.op = "none"
          /\ out'.fault = "none"
          /\ UNCHANGED <<user_states, allowed_user_ids, password,
                         current_directories, tasks, fs>>]_vars

\* a user with the password prompt pending pressed a token that would store
\* another pending action, was denied, and the prompt is still pending
C8_Witness ==
    /\ out.sig = "button"
    /\ out.data.verb \in DOMAIN PromptAction
    /\ out.reply = "denied"
    /\ out.pending = "auth_password"
    /\ get_action(Cur, out.user) = "auth_password"

\* C9: a press of a navigation token leaves every session entry and every
\* timer as it was, and from an authorized user it is answered by the
\* navigation branch whatever action is pending
C9_NavigationKeepsSession ==
    [][(out'.sig = "button" /\ out'.data.verb \in NavigationVerbs)
       => /\ user_states' = user_states
          /\ tasks' = tasks
          /\ out'.user \in allowed_user_ids
             => \/ out'.reply \in NavigationReplies
                \/ out'.data.verb = "dirb_" /\ out'.fault \in DecodeFaults]_vars

\* a directory control was pressed while an action was pending and a live
\* timer attached; the listing was shown and both are still there
C9_Witness ==
    /\ PressedRendered
    /\ out.data.verb = "dirb_"
    /\ out.reply = "listing"
    /\ out.pending = "run_process"
    /\ out.timer # 0
    /\ get_action(Cur, out.user) = "run_process"
    /\ get_timer(Cur, out.user) = out.timer
    /\ tasks[out.timer].status = "sleeping"

\* C10: every path-addressed control, verb prefix followed by path token, is
\* at most 64 bytes long
C10_ControlFitsBudget == \A c \in controls : Len(c.verb) + Len(c.arg) <= 64

\* C11: a press of dir_up by an authorized user whose current directory is
\* not a root shows the enclosing directory of that directory, so that one
\* level below C:\ it shows the listing of C:\ again
C11_UpShowsEnclosing ==
    [][LET d == get_user_directory(Cur, out'.user)
       IN  (/\ out'.sig = "button"
            /\ out'.data.verb = "dir_up"
            /\ out'.user \in allowed_user_ids
            /\ d # EmptyStr
            /\ path_parent(d) # path_str(d))
           => /\ out'.target = path_parent(d)
              /\ current_directories'[out'.user] = path_parent(d)]_vars

\* get_parent_directory applied n times
RECURSIVE Climb(_, _)
Climb(p, n) == IF n = 0 THEN p ELSE Climb(get_parent_directory(p), n - 1)

\* C12: from every stored directory, get_parent_directory applied once per
\* character and once more has reached the empty sentinel; applied to the
\* sentinel, and so to the result at a root, it returns the sentinel again;
\* and dir_up stores and shows what get_parent_directory returns
C12_UpwardTerminates ==
    \A u \in DOMAIN current_directories :
        LET d == current_directories[u]
        IN  /\ Climb(d, Len(d) + 1) = EmptyStr
            /\ get_parent_directory(EmptyStr) = EmptyStr
            /\ path_parent(d) = d
               => get_parent_directory(get_parent_directory(d)) = get_parent_directory(d)
            /\ (out.sig = "button" /\ out.data.verb = "dir_up" /\ out.user = u)
               => out.target = d

\* dir_up was pressed at the top: the sentinel was browsed, the drive list
\* shown, and the stored directory is the sentinel
C12_Witness ==
    /\ out.sig = "button"
    /\ out.data.verb = "dir_up"
    /\ out.target = EmptyStr
    /\ out.reply = "listing"
    /\ current_directories[out.user] = EmptyStr

\* C13: while the handler of one user is inside a long-running collaborator,
\* a signal of every other user can be dispatched
C13_LoopNeverBlocked ==
    running.op \in LongRunning
    => \A u \in Users \ {running.user} : ENABLED Dispatches(u)

\* C14: whatever a thread other than that of the event loop does when it
\* calls the sink, it does not take or call context.bot
C14_SinkHandsOver == out.thread # "loop" => out.op # "context.bot.send_message"

\* C15: when handle_message has dispatched the path of an existing directory
\* sent by an authorized user with watch_directory pending, a watcher rooted
\* at that path is active
C15_WatcherIsActive ==
    (/\ out.sig = "text" /\ out.pending = "watch_directory"
     /\ out.user \in allowed_user_ids /\ IsDir(fs, out.text))
    => \E i \in DOMAIN watchers : watchers[i].path = out.text

\* the destination that a file action computes from the stored path and the text
DestinationOf(action, file_path, text) ==
    IF action = "rename_file" THEN path_join(path_parent(file_path), text) ELSE text

\* C16: a rename, move or copy of an existing source whose destination exists
\* already is answered with a failure and leaves the filesystem, source and
\* destination, as it was
C16_CollisionIsRefused ==
    [][\A u \in DOMAIN user_states :
        (/\ out'.sig = "text" /\ out'.user = u /\ u \in allowed_user_ids
         /\ out'.pending \in FileActions
         /\ HasKey(user_states[u], "file_path")
         /\ Exists(fs, user_states[u].file_path)
         /\ Exists(fs, DestinationOf(out'.pending, user_states[u].file_path, out'.text)))
        => /\ out'.reply = "failure"
           /\ fs' = fs]_vars

\* C17: a text N sent by an authorized user with rename_file pending on an
\* existing path F renames F to N in F's directory and answers "Renamed to: N"
\* when nothing is there; when something is there it answers "Destination
\* already exists" and leaves the filesystem, F and N included, as it was
C17_RenameOrCollision ==
    [][\A u \in DOMAIN user_states :
        (/\ out'.sig = "text" /\ out'.user = u /\ u \in allowed_user_ids
         /\ out'.pending = "rename_file"
         /\ HasKey(user_states[u], "file_path")
         /\ Exists(fs, user_states[u].file_path))
        => LET F == user_states[u].file_path
               N == path_join(path_parent(F), out'.text)
           IN  IF Exists(fs, N)
               THEN /\ out'.reply = "failure"
                    /\ out'.msg = [text |-> "Destination already exists", ref |-> N]
                    /\ fs' = fs
               ELSE /\ out'.reply = "result"
                    /\ out'.msg = [text |-> "Renamed to", ref |-> out'.text]
                    /\ ~Exists(fs', F)
                    /\ Exists(fs', N) /\ fs'[N] = fs[F]
                    /\ \A q \in DOMAIN fs : ~IsUnder(q, F) => (Exists(fs', q) /\ fs'[q] = fs[q])]_vars

\* a rename met an existing destination: the collision was answered, and the
\* source and the destination are still there
C17_Witness ==
    /\ out.sig = "text"
    /\ out.pending = "rename_file"
    /\ out.reply = "failure"
    /\ out.msg.text = "Destination already exists"
    /\ IsFile(fs, out.target)
    /\ IsFile(fs, out.msg.ref)
    /\ out.msg.ref # out.target

\* C20: when handle_message has dispatched a text of an authorized user who
\* had rename_file pending, the user has no entry in user_states, whether the
\* rename succeeded or failed
C20_RenameEndsIdle ==
    (/\ out.sig = "text" /\ out.pending = "rename_file"
     /\ out.user \in allowed_user_ids)
    => /\ out.user \notin DOMAIN user_states
       /\ out.fault = "none"
       /\ out.reply \in {"result", "failure"}

\* a rename whose source was deleted while the prompt was pending failed, and
\* the user is Idle
C20_Witness ==
    /\ out.sig = "text"
    /\ out.pending = "rename_file"
    /\ out.reply = "failure"
    /\ out.msg.text = "Path does not exist"
    /\ out.user \notin DOMAIN user_states

\* C18: file_refresh on a stored path that does not exist is answered with
\* the error "Directory does not exist", and on a path that is a file with
\* "Not a directory": get_directory_contents returns no item, nothing is
\* raised and no control is rendered
C18_ListingErrors ==
    (/\ out.sig = "button" /\ out.data.verb = "file_refresh"
     /\ out.target # EmptyStr /\ ~IsDir(fs, out.target))
    => /\ get_directory_contents(fs, out.target) =
              [items |-> <<>>,
               error |-> IF Exists(fs, out.target) THEN "Not a directory"
                         ELSE "Directory does not exist"]
       /\ out.reply = "listing_error"
       /\ out.fault = "none"
       /\ controls = {}

\* file_refresh was pressed with the path of a file stored
C18_Witness ==
    /\ out.sig = "button"
    /\ out.data.verb = "file_refresh"
    /\ IsFile(fs, out.target)
    /\ out.reply = "listing_error"

\* a session entry without its timer handle: the pending action and its scratch
Scratch(d) == [k \in DOMAIN d \ {"timer_task"} |-> d[k]]

\* C19: a step of a timer task, its wake-up or its finally block, creates and
\* removes no session entry and leaves the pending action and the scratch data
\* of every user as they were; a user without an entry has none afterwards
C19_TimerKeepsSessions ==
    [][out'.sig \in {"timer", "timer_done"}
       => /\ DOMAIN user_states' = DOMAIN user_states
          /\ \A u \in DOMAIN user_states :
                Scratch(user_states'[u]) = Scratch(user_states[u])]_vars

\* the timer of a user without an entry has fired and finished while another
\* user had an action pending: the one has no entry, the other's is as it was
C19_Witness ==
    /\ out.sig = "timer_done"
    /\ out.user \notin DOMAIN user_states
    /\ \E v \in DOMAIN user_states : v # out.user /\ get_action(Cur, v) # "none"

\* C21: after stop_all_watchers no watcher is listed and no observer thread
\* runs, whatever was listed before, and no error is raised; with no watcher
\* listed the call stops nothing and leaves the observers as they were
C21_StopAllEmpties ==
    [][out'.op = "stop_all_watchers"
       => /\ watchers' = <<>>
          /\ observers' = {}
          /\ out'.fault = "none"
          /\ watchers = <<>> => observers' = observers /\ out'.msg = NoMsg]_vars

\* stop_all_watchers has stopped the watchers that were listed
C21_Witness ==
    /\ out.op = "stop_all_watchers"
    /\ out.msg.text = "Stopped watching directory"
    /\ watchers = <<>>

\* C22: start_directory_watch on a path that does not exist returns failure
\* and leaves the listed watchers and the running observer threads as they were
C22_MissingPathFails ==
    [][out'.op = "start_directory_watch" /\ ~Exists(fs, out'.target)
       => /\ out'.reply = "failed"
          /\ watchers' = watchers
          /\ observers' = observers]_vars

\* a start on a missing path has failed while another watcher was listed
C22_Witness ==
    /\ out.op = "start_directory_watch"
    /\ ~Exists(fs, out.target)
    /\ out.reply = "failed"
    /\ watchers # <<>>

RECURSIVE SumSeq(_)
\* the sum of a sequence of numbers
SumSeq(q) == IF q = <<>> THEN 0 ELSE Head(q) + SumSeq(Tail(q))

\* C23: a rendered process list or directory listing has at most 20 summary
\* lines and at most 15 controls that select an entry, and when entries are
\* left out of the summary its "more" lines count exactly the entries left out
C23_ListsAreBounded ==
    out.view # NoView
    => /\ out.view.lines <= SummaryLines
       /\ out.view.buttons <= MaxButtons
       /\ out.view.entries > out.view.lines
            => /\ out.view.more # <<>>
               /\ SumSeq(out.view.more) = out.view.entries - out.view.lines

\* C24: a download of a file of more than 50 MB is refused with the message
\* that names the limit and nothing is transferred; a file of at most 50 MB
\* is handed to reply_document
C24_CeilingOnSend ==
    out.op = "download_file" /\ IsFile(fs, out.target)
    => /\ fs[out.target].size > 50 * 1024 * 1024 => out.reply = "too_large"
       /\ fs[out.target].size <= 50 * 1024 * 1024 => out.reply = "document"

\* the download of a file one byte above the ceiling has been refused
C24_Witness ==
    /\ out.op = "download_file"
    /\ IsFile(fs, out.target)
    /\ fs[out.target].size = 50 * 1024 * 1024 + 1
    /\ out.reply = "too_large"

\* C25: a document from an authorized user whose stored directory is empty
\* is answered with the request to open a directory first and writes no
\* file; with a directory stored the document is saved as a file under it
C25_UploadNeedsDirectory ==
    [][out'.sig = "document" /\ out'.user \in allowed_user_ids
       => IF get_user_directory(Cur, out'.user) = EmptyStr
          THEN out'.reply = "open_directory_first" /\ fs' = fs
          ELSE /\ out'.reply = "saved"
               /\ IsFile(fs', out'.target)
               /\ out'.target # get_user_directory(Cur, out'.user)
               /\ IsUnder(out'.target, get_user_directory(Cur, out'.user))]_vars

\* C26: a listing of a directory names its folders before its files and
\* each group in the order of the names in lower case, and it names every
\* entry but those whose stat() raises an access error, which it leaves out
C26_ListingSortedAndPartial ==
    out.op = "browse_directory" /\ IsDir(fs, out.target)
    => /\ out.reply \in {"listing", "empty"}
       /\ \A c \in Children(fs, out.target) :
             /\ fs[c].stat = "ok" => \E i \in DOMAIN out.view.items : out.view.items[i] = c
             /\ fs[c].stat = "denied" => \A i \in DOMAIN out.view.items : out.view.items[i] # c
       /\ \A i, j \in DOMAIN out.view.items :
             i < j => /\ IsDir(fs, out.view.items[j]) => IsDir(fs, out.view.items[i])
                      /\ IsDir(fs, out.view.items[i]) = IsDir(fs, out.view.items[j])
                            => StrLess(LowerStr(path_name(out.view.items[i])),
                                       LowerStr(path_name(out.view.items[j])))

\* C27: a press by an authorized user of a token that opens a prompt leaves
\* that user's entry with the token's action and with nothing but the
\* scratch data of that action, the file path of a file action, whatever
\* the entry held before
C27_PromptOverwrites ==
    [][(/\ out'.sig = "button"
        /\ out'.user \in allowed_user_ids
        /\ out'.fault = "none"
        /\ out'.data.verb \in DOMAIN PromptAction \cup DOMAIN PathPromptAction)
       => /\ out'.user \in DOMAIN user_states'
          /\ user_states'[out'.user] =
                IF out'.data.verb \in DOMAIN PromptAction
                THEN [action |-> PromptAction[out'.data.verb]]
                ELSE [action |-> PathPromptAction[out'.data.verb],
                      file_path |-> out'.data.path]]_vars

\* a file action was chosen while the prompt of another action was open
C27_Witness ==
    /\ out.sig = "button"
    /\ out.data.verb \in DOMAIN PathPromptAction
    /\ out.pending \notin {"none", "auth_password", PathPromptAction[out.data.verb]}
    /\ get_action(Cur, out.user) = PathPromptAction[out.data.verb]

\* C28: a signal dispatched for one user (a press, a text, a cancel, a
\* timer start, a step of that user's timer) leaves every other user
\* with the same entry or with none as before, pending action, scratch
\* data and timer handle alike, and leaves the other users' timer tasks
\* as they were
C28_SessionsIndependent ==
    [][\A b \in Users \ {out'.user} :
          /\ b \in DOMAIN user_states' <=> b \in DOMAIN user_states
          /\ b \in DOMAIN user_states => user_states'[b] = user_states[b]
          /\ \A h \in DOMAIN tasks : tasks[h].user = b => tasks'[h] = tasks[h]]_vars

\* a user's pending action was consumed by a text while another user had
\* an action pending and a sleeping timer attached
C28_Witness ==
    /\ out.sig = "text"
    /\ out.pending = "run_process"
    /\ out.user \notin DOMAIN user_states
    /\ \E b \in Users \ {out.user} :
          /\ get_action(Cur, b) # "none"
          /\ get_timer(Cur, b) # 0
          /\ tasks[get_timer(Cur, b)].status = "sleeping"

\* C29: the allow-list changes only by gaining the sender of a text that is
\* the stored password while that sender's pending action is auth_password;
\* any other text in that state leaves the allow-list as it was, and after
\* either the sender has no entry
C29_AllowListOnlyOnSuccess ==
    [][/\ allowed_user_ids' # allowed_user_ids
          => /\ out'.sig = "text"
             /\ out'.pending = "auth_password"
             /\ out'.text = password
             /\ allowed_user_ids' = allowed_user_ids \cup {out'.user}
       /\ out'.sig = "text" /\ out'.pending = "auth_password"
          => /\ out'.user \notin DOMAIN user_states'
             /\ out'.text # password => allowed_user_ids' = allowed_user_ids
             /\ out'.text = password => out'.user \in allowed_user_ids']_vars

\* a wrong password was answered while another user was on the allow-list
C29_Witness ==
    /\ out.sig = "text"
    /\ out.pending = "auth_password"
    /\ out.text # password
    /\ out.reply = "auth_wrong"
    /\ out.user \notin allowed_user_ids
    /\ allowed_user_ids # {}

\* C30: a timer started by an authorized user who has no entry raises no
\* fault: afterwards the user has an entry, and it holds the handle of the
\* task that was created
C30_TimerStartsFromIdle ==
    [][(/\ out'.sig = "button"
        /\ out'.data.verb \in DOMAIN TimerAction
        /\ out'.user \in allowed_user_ids
        /\ out'.user \notin DOMAIN user_states
        /\ Len(tasks') = Len(tasks) + 1)
       => /\ out'.fault = "none"
          /\ out'.user \in DOMAIN user_states'
          /\ HasKey(user_states'[out'.user], "timer_task")
          /\ user_states'[out'.user].timer_task = Len(tasks')]_vars

\* C31: an event whose delivery raises inside the sink does not stop the
\* watcher: the step of the observer thread leaves no fault, the watcher stays
\* in the active list, and its observer keeps running, so that later events
\* under its directory are handed to the sink as well
C31_FailedDeliveryKeepsWatcher ==
    [][(/\ out'.sig = "change"
        /\ out'.thread = "observer"
        /\ out' # out)
       => /\ out'.fault = "none"
          /\ watchers' = watchers
          /\ observers' = observers
          /\ \E o \in observers' : o.user = out'.user /\ IsUnder(out'.target, o.path)]_vars

\* a delivery has failed for an event of a watcher that is still listed with
\* its observer running, after an earlier event of the same watcher
C31_Witness ==
    /\ out.sig = "change"
    /\ out.thread = "observer"
    /\ out.msg.text = "Exception swallowed"
    /\ \E i \in DOMAIN watchers :
          /\ watchers[i].user = out.user
          /\ IsUnder(out.target, watchers[i].path)
          /\ \E o \in observers : o.handle = watchers[i].observer

\* C38: mon_stop pressed by any authorized user stops the watchers of every
\* user: when it has returned no watcher is listed and no observer thread is
\* running, and since an event reaches a sink only from an observer thread
\* that is running, no watcher that was active before the stop delivers
\* anything after it
C38_StopSilencesEveryWatcher ==
    [][/\ (/\ out'.sig = "button"
           /\ out'.data.verb = "mon_stop"
           /\ out'.user \in allowed_user_ids)
          => /\ out'.op = "stop_all_watchers"
             /\ watchers' = <<>>
             /\ observers' = {}
       /\ (/\ out'.sig = "change"
           /\ out'.thread = "observer"
           /\ out' # out)
          => \E o \in observers :
                /\ o.user = out'.user
                /\ IsUnder(out'.target, o.path)
                /\ \E i \in DOMAIN watchers : watchers[i].observer = o.handle]_vars

\* mon_stop has returned after stopping at least one watcher
C38_Witness ==
    /\ out.sig = "button"
    /\ out.data.verb = "mon_stop"
    /\ out.user \in allowed_user_ids
    /\ out.msg.text = "Stopped watching directory"
    /\ watchers = <<>>
    /\ observers = {}

\* C32: the token of every rendered control is encode_path of its path, has
\* at most 60 characters, is the whole base64 text when that has at most 60
\* characters and its first 60 characters otherwise, and in that case
\* decode_path maps it to the first 45 UTF-8 bytes of the path
C32_TokenIsPrefixOfPath ==
    \A c \in controls :
        LET bytes == utf8_encode(c.path)
            full  == b64encode(bytes)
        IN  /\ c.arg = encode_path(c.path)
            /\ Len(c.arg) <= TokenBudget
            /\ Len(full) <= TokenBudget => c.arg = full
            /\ Len(full) > TokenBudget
               => /\ c.arg = SubSeq(full, 1, TokenBudget)
                  /\ decode_path(c.arg).ok
                  /\ utf8_encode(decode_path(c.arg).val)
                       = SubSeq(bytes, 1, (TokenBudget \div 4) * 3)

\* C33: a signal of a user who is not on the allow-list, at whatever entry
\* point, runs no collaborator, file, watcher or timer action and changes
\* nothing but that user's own entry, which can only be the password prompt,
\* and, when the text is the password, that user's own membership of the
\* allow-list; so nobody outside the allow-list ever holds another pending
\* action
C33_OutsidersOnlyAuthenticate ==
    [][/\ out'.user \notin allowed_user_ids
          => /\ out'.op = "none"
             /\ UNCHANGED <<password, current_directories, tasks, fs, running,
                            watchers, observers, processes>>
             /\ \A b \in Users \ {out'.user} :
                   /\ b \in DOMAIN user_states' <=> b \in DOMAIN user_states
                   /\ b \in DOMAIN user_states => user_states'[b] = user_states[b]
             /\ allowed_user_ids' \in {allowed_user_ids, allowed_user_ids \cup {out'.user}}
             /\ allowed_user_ids' # allowed_user_ids
                => /\ out'.sig = "text"
                   /\ out'.pending = "auth_password"
                   /\ out'.text = password
       /\ \A u \in DOMAIN user_states' \ allowed_user_ids' :
             user_states'[u] = [action |-> "auth_password"]]_vars

\* a user with the password prompt pending has sent a document and was
\* denied, while another user was on the allow-list with a timer attached
C33_Witness ==
    /\ out.sig = "document"
    /\ out.user \notin allowed_user_ids
    /\ out.pending = "auth_password"
    /\ out.reply = "denied"
    /\ \E b \in allowed_user_ids :
          /\ b \in DOMAIN user_states
          /\ HasKey(user_states[b], "timer_task")

\* C34: every entry of user_states carries an action, the reply "Unknown
\* action" is never sent, and every entry can be left by a free text: some
\* text of its user is taken by a branch of handle_message that removes the
\* entry, at once or when the collaborator it waits for has returned
C34_EveryEntryCanBeLeft ==
    /\ out.reply # "unknown_action"
    /\ \A u \in DOMAIN user_states :
          /\ HasKey(user_states[u], "action")
          /\ LoopFree
             => \E text \in Texts : \E r \in {handle_message(Cur, u, text)} :
                   /\ r.out.reply # "unknown_action"
                   /\ r.out.fault = "none"
                   /\ u \notin DOMAIN r.us \/ r.run # NoCall

\* C35: a timer task that finishes removes from the session of its user
\* only its own handle: a handle of a newer timer attached in the meantime
\* is still attached afterwards
C35_FinishRemovesOwnHandle ==
    [][(/\ out'.sig = "timer_done"
        /\ out'.timer \in DOMAIN tasks
        /\ tasks[out'.timer].status = "replying"
        /\ tasks'[out'.timer].status = "done"
        /\ out'.user \in DOMAIN user_states
        /\ HasKey(user_states[out'.user], "timer_task")
        /\ user_states[out'.user].timer_task # out'.timer)
       => /\ out'.user \in DOMAIN user_states'
          /\ HasKey(user_states'[out'.user], "timer_task")
          /\ user_states'[out'.user].timer_task = user_states[out'.user].timer_task]_vars

\* C36: a timer cancelled by start_timer while it is still waiting is
\* cancelled for good: it never runs its sleep or shutdown action and never
\* sends a completion message; every other timer runs its action once, when
\* its sleep ends, sends its message once after that, is not attached to a
\* session once it has finished, and every waiting timer is eventually
\* cancelled or finished
C36_TimerRunsOnceUnlessCancelled ==
    /\ [][\A h \in DOMAIN tasks :
            /\ (/\ out'.sig = "button"
                /\ out'.data.verb \in DOMAIN TimerAction
                /\ Len(tasks') = Len(tasks) + 1
                /\ get_timer(Cur, out'.user) = h
                /\ tasks[h].status = "sleeping")
               => tasks'[h].status = "cancelled"
            /\ tasks[h].status = "cancelled"
               => /\ tasks'[h] = tasks[h]
                  /\ out'.sig \in {"timer", "timer_done"} /\ out'.timer = h => out' = out
            /\ tasks'[h].status # tasks[h].status
               => \/ tasks[h].status = "sleeping" /\ tasks'[h].status = "cancelled"
                  \/ /\ tasks[h].status = "sleeping" /\ tasks'[h].status = "replying"
                     /\ out'.sig = "timer" /\ out'.timer = h
                     /\ out'.op = (IF tasks[h].action = "sleep" THEN "sleep_pc"
                                   ELSE "shutdown_pc")
                  \/ /\ tasks[h].status = "replying" /\ tasks'[h].status = "done"
                     /\ out'.sig = "timer_done" /\ out'.timer = h
            /\ tasks'[h].status = "done"
               => \A u \in DOMAIN user_states' : get_timer(Cur', u) # h]_vars
    /\ \A h \in 1..MaxTimers :
          (h \in DOMAIN tasks /\ tasks[h].status = "sleeping")
             ~> (h \in DOMAIN tasks /\ tasks[h].status \in {"cancelled", "done"})

\* one timer was cancelled while waiting and has run nothing, and another
\* one, never cancelled, has finished
C36_Witness ==
    \E h, g \in DOMAIN tasks :
        /\ tasks[h].status = "cancelled"
        /\ tasks[g].status = "done"
        /\ ~tasks[g].cancel_requested

\* C37: a text answering the shutdown (restart) confirmation of an authorized
\* user invokes shutdown_pc (restart_pc) when it is "yes", "confirm" or "да"
\* in whatever case, invokes no collaborator otherwise, and in both cases
\* leaves the user without an entry
C37_ConfirmationDecides ==
    [][(/\ out'.sig = "text"
        /\ out'.user \in allowed_user_ids
        /\ out'.pending \in {"confirm_shutdown", "confirm_restart"})
       => LET text == out'.text
              confirms ==
                  \E w \in { <<121, 101, 115>>, <<99, 111, 110, 102, 105, 114, 109>>,
                             <<1076, 1072>> } :
                      /\ Len(w) = Len(text)
                      /\ \A i \in DOMAIN w : text[i] = w[i] \/ Lower(text[i]) = w[i]
          IN  /\ out'.fault = "none"
              /\ out'.user \notin DOMAIN user_states'
              /\ running' = NoCall
              /\ confirms => out'.op = (IF out'.pending = "confirm_shutdown"
                                        THEN "shutdown_pc" ELSE "restart_pc")
              /\ ~confirms => out'.op = "none"
                              /\ out'.reply \in {"shutdown_cancelled", "restart_cancelled"}]_vars

\* the shutdown confirmation was answered "Да" and shutdown_pc was invoked
C37_Witness ==
    /\ out.sig = "text"
    /\ out.pending = "confirm_shutdown"
    /\ out.text = <<1044, 1072>>
    /\ out.op = "shutdown_pc"
    /\ out.user \notin DOMAIN user_states

\* C39: the stored working directory of a user is the path of that user's
\* latest browse request: browse_directory stores the requested path whether
\* the listing succeeds or not, nothing else writes it, and file_refresh,
\* dir_up and an upload work from the stored value
C39_StoredDirectoryIsLastBrowse ==
    [][LET u == out'.user
           stored == get_user_directory(Cur, u)
       IN  /\ out'.op = "browse_directory"
              => /\ out'.sig = "button"
                 /\ get_user_directory(Cur', u) = out'.target
                 /\ \A b \in Users \ {u} :
                        get_user_directory(Cur', b) = get_user_directory(Cur, b)
           /\ out'.op # "browse_directory" => current_directories' = current_directories
           /\ (/\ out'.sig = "button" /\ u \in allowed_user_ids
               /\ out'.data.verb = "file_refresh")
              => out'.op = "browse_directory" /\ out'.target = stored
           /\ (/\ out'.sig = "button" /\ u \in allowed_user_ids
               /\ out'.data.verb = "dir_up")
              => out'.op = "browse_directory" /\ out'.target = get_parent_directory(stored)
           /\ (out'.sig = "document" /\ out'.op = "download_to_drive")
              => /\ stored # EmptyStr
                 /\ out'.target = path_join(stored, out'.text)]_vars

\* a browse request whose listing failed has been stored as the working
\* directory
C39_Witness ==
    /\ out.op = "browse_directory"
    /\ out.reply = "listing_error"
    /\ out.target # EmptyStr
    /\ get_user_directory(Cur, out.user) = out.target

====
